---- MODULE Spec2Model ----
(***************************************************************************)
(* Model of the structural indexer (glean_code_ds.py) and of the grounded  *)
(* query engine (spring_boot_analyzer/analyzer.py).                        *)
(*                                                                         *)
(* Strings are TLA+ strings; TLC evaluates Len, SubSeq and \o on them, so  *)
(* the Python string operations below are computed character by           *)
(* character.  A Python dict is an insertion-ordered sequence of           *)
(* [k |-> key, v |-> value] records.                                       *)
(***************************************************************************)
EXTENDS Integers, Sequences, FiniteSets, TLC

(***************************************************************************)
(* Bounds of the model.                                                    *)
(***************************************************************************)
MaxScans == 2
MaxEdits == 1
MaxFaults == 1
MaxQueries == 1

(***************************************************************************)
(* Python string operations.                                               *)
(***************************************************************************)
\* s.find(sub), 1-based; 0 when sub does not occur in s
Find(s, sub) ==
    LET hits == {i \in 1..(Len(s) - Len(sub) + 1) : SubSeq(s, i, i + Len(sub) - 1) = sub}
    IN  IF hits = {} THEN 0 ELSE CHOOSE i \in hits : \A j \in hits : i <= j

\* sub in s
Contains(s, sub) == Find(s, sub) > 0

\* s.startswith(p)
StartsWith(s, p) == Len(p) <= Len(s) /\ SubSeq(s, 1, Len(p)) = p

\* s.replace(old, new): every non-overlapping occurrence, left to right
RECURSIVE Replace(_, _, _)
Replace(s, old, new) ==
    IF old = "" \/ Find(s, old) = 0 THEN s
    ELSE LET i == Find(s, old)
         IN  SubSeq(s, 1, i - 1) \o new
                \o Replace(SubSeq(s, i + Len(old), Len(s)), old, new)

(***************************************************************************)
(* Python dicts: insertion-ordered sequences of key/value records.         *)
(***************************************************************************)
EmptyDict == << >>

DictKeys(d) == {d[i].k : i \in 1..Len(d)}

DictGet(d, key) == (CHOOSE i \in 1..Len(d) : d[i].k = key)

\* d[key] = val : replaces the value in place, or appends a new key
DictSet(d, key, val) ==
    IF key \in DictKeys(d)
    THEN [i \in 1..Len(d) |-> IF d[i].k = key THEN [k |-> key, v |-> val] ELSE d[i]]
    ELSE Append(d, [k |-> key, v |-> val])

DictVal(d, key) == d[DictGet(d, key)].v


(***************************************************************************)
(* Character case: str.lower() and str.upper().                            *)
(***************************************************************************)
LowerLetters == "abcdefghijklmnopqrstuvwxyz"
UpperLetters == "ABCDEFGHIJKLMNOPQRSTUVWXYZ"

CharMap(c, from, to) ==
    IF Contains(from, c) THEN SubSeq(to, Find(from, c), Find(from, c)) ELSE c

RECURSIVE MapChars(_, _, _)
MapChars(s, from, to) ==
    IF s = "" THEN ""
    ELSE CharMap(SubSeq(s, 1, 1), from, to) \o MapChars(SubSeq(s, 2, Len(s)), from, to)

Lower(s) == MapChars(s, UpperLetters, LowerLetters)
Upper(s) == MapChars(s, LowerLetters, UpperLetters)

\* s.split(sep)
RECURSIVE Split(_, _)
Split(s, sep) ==
    IF Find(s, sep) = 0 THEN <<s>>
    ELSE <<SubSeq(s, 1, Find(s, sep) - 1)>>
            \o Split(SubSeq(s, Find(s, sep) + Len(sep), Len(s)), sep)

\* s.endswith(p)
EndsWith(s, p) == Len(p) <= Len(s) /\ SubSeq(s, Len(s) - Len(p) + 1, Len(s)) = p

\* os.path.basename(path)
Basename(path) == LET parts == Split(path, "/") IN parts[Len(parts)]

\* [f(x) for x in seq]
SeqRange(seq) == {seq[i] : i \in 1..Len(seq)}

RECURSIVE Flatten(_)
Flatten(seqs) == IF seqs = << >> THEN << >> ELSE Head(seqs) \o Flatten(Tail(seqs))

(***************************************************************************)
(* Module constants of glean_code_ds.py.                                   *)
(***************************************************************************)
EXTERNAL_PACKAGES ==
    { "org.springframework", "javax", "java", "org.hibernate", "org.junit",
      "org.mockito", "org.apache", "com.fasterxml", "io.swagger", "lombok",
      "jakarta", "org.slf4j", "ch.qos.logback", "org.json", "com.google",
      "org.testng", "junit", "org.junit.jupiter", "org.junit.jupiter.api" }

TEST_KEYWORDS ==
    { "Test", "Tests", "TestCase", "TestSuite", "IntegrationTest",
      "UnitTest", "Spec", "Specification", "IT", "E2E" }

HTTP_MAPPINGS ==
    { "GetMapping", "PostMapping", "PutMapping", "DeleteMapping", "PatchMapping" }

is_test_class(class_name, file_path) ==
    \/ \E keyword \in TEST_KEYWORDS : Contains(class_name, keyword)
    \/ LET test_dirs == {"test", "tests", "testing", "it", "e2e"}
           path_parts == Split(Lower(file_path), "/")
       IN  \E test_dir \in test_dirs : test_dir \in SeqRange(path_parts)

\* is_external_dependency with the bug that the import path is compared with
\* the configured names for equality
is_external_dependency_exact(dependency) ==
    dependency \in EXTERNAL_PACKAGES

is_external_dependency(dependency) ==
    \E pkg \in EXTERNAL_PACKAGES : StartsWith(dependency, pkg)

(***************************************************************************)
(* The source files under the scanned directory.  A source text is given   *)
(* by its lines and by the javalang tree of those lines: package, imports  *)
(* and type declarations with their annotations, methods and fields.       *)
(* "bad" is a text javalang rejects with JavaSyntaxError.                  *)
(***************************************************************************)
JavaFiles == {"app/FooController.java", "app/BarService.java"}

Contents == {"bad", "v1", "v2"}

BadSource == [valid |-> FALSE]

FooMethodBar == [name |-> "bar", line |-> 9, annotations |-> <<"GetMapping">>]
FooMethodBaz == [name |-> "baz", line |-> 11, annotations |-> <<"PostMapping">>]

FooLines ==
    << "package com.bank;",
       "import com.bank.BarService;",
       "import org.springframework.web.bind.annotation.GetMapping;",
       "@RestController",
       "@RequestMapping(\"/a\")",
       "public class FooController {",
       "  private BarService barService;",
       "  @GetMapping(value = \"/b\")",
       "  public String bar() { return null; }" >>

FooSource(methods, lines) ==
    [valid |-> TRUE,
     lines |-> lines,
     package |-> "com.bank",
     imports |-> << "com.bank.BarService",
                    "org.springframework.web.bind.annotation.GetMapping" >>,
     types |-> << [kind |-> "class", name |-> "FooController", line |-> 6,
                   annotations |-> <<"RestController", "RequestMapping">>,
                   methods |-> methods,
                   fields |-> << [type |-> "BarService",
                                  names |-> <<"barService">>] >>] >>]

BarSource(imports) ==
    [valid |-> TRUE,
     lines |-> << "package com.bank;" >>
                \o [i \in 1..Len(imports) |-> "import " \o imports[i] \o ";"]
                \o << "@Service",
                      "public class BarService {",
                      "  private BarRepository barRepository;",
                      "  public void run() { }",
                      "}" >>,
     package |-> "com.bank",
     imports |-> imports,
     types |-> << [kind |-> "class", name |-> "BarService",
                   line |-> Len(imports) + 3,
                   annotations |-> <<"Service">>,
                   methods |-> << [name |-> "run", line |-> Len(imports) + 5,
                                   annotations |-> << >>] >>,
                   fields |-> << [type |-> "BarRepository",
                                  names |-> <<"barRepository">>] >>] >>]

\* open(file_path).read() followed by javalang.parse.parse
SourceOf(file_path, content) ==
    IF content = "bad" THEN BadSource
    ELSE IF file_path = "app/FooController.java"
    THEN IF content = "v1"
         THEN FooSource(<<FooMethodBar>>, FooLines \o << "}" >>)
         ELSE FooSource(<<FooMethodBar, FooMethodBaz>>,
                        FooLines \o << "  @PostMapping(value = \"/c\")",
                                       "  public String baz() { return null; }",
                                       "}" >>)
    ELSE IF content = "v1"
         THEN BarSource(<< "java.util.List", "com.bank.BarRepository" >>)
         ELSE BarSource(<< "java.util.List", "com.bank.BarRepository",
                           "com.bank.Audit" >>)

(***************************************************************************)
(* re.search over one source line for: value, optional white space, =,   *)
(* optional white space, a quoted text.  The first position where the      *)
(* pattern matches, and the quoted text (its group).                       *)
(***************************************************************************)
CharAt(s, i) == IF 1 <= i /\ i <= Len(s) THEN SubSeq(s, i, i) ELSE ""

RECURSIVE SkipSpace(_, _)
SkipSpace(s, i) ==
    IF CharAt(s, i) \in {" ", "\t"} THEN SkipSpace(s, i + 1) ELSE i

ValueMatchAt(s, i) ==
    LET j == SkipSpace(s, i + 5)
        k == SkipSpace(s, j + 1)
        rest == SubSeq(s, k + 1, Len(s))
    IN  IF /\ i + 4 <= Len(s)
           /\ SubSeq(s, i, i + 4) = "value"
           /\ CharAt(s, j) = "="
           /\ CharAt(s, k) = "\""
           /\ Find(rest, "\"") > 0
        THEN [found |-> TRUE, group |-> SubSeq(rest, 1, Find(rest, "\"") - 1)]
        ELSE [found |-> FALSE, group |-> ""]

ValueSearch(s) ==
    IF \E i \in 1..Len(s) : ValueMatchAt(s, i).found
    THEN ValueMatchAt(s, CHOOSE i \in 1..Len(s) :
                            /\ ValueMatchAt(s, i).found
                            /\ \A j \in 1..(i - 1) : ~ValueMatchAt(s, j).found)
    ELSE [found |-> FALSE, group |-> ""]

(***************************************************************************)
(* extract_api_flow(tree, file_path)                                       *)
(***************************************************************************)
\* the first HTTP-verb annotation of a method, "" when it has none
MappingAnnotation(member) ==
    LET hits == SelectSeq(member.annotations, LAMBDA a : a \in HTTP_MAPPINGS)
    IN  IF hits = << >> THEN "" ELSE hits[1]

\* lines[i] for i in range(max(0, line_number - 10), line_number): the path
\* is read from the first of these lines that contains the annotation name
EndpointPath(lines, line_number, ann_name) ==
    LET lo == IF line_number - 10 > 0 THEN line_number - 10 ELSE 0
        window == {i \in (lo + 1)..line_number : i <= Len(lines)}
        hits == {i \in window : Contains(lines[i], ann_name)}
    IN  IF hits = {} THEN ""
        ELSE LET first == CHOOSE i \in hits : \A j \in hits : i <= j
             IN  IF ValueSearch(lines[first]).found
                 THEN ValueSearch(lines[first]).group
                 ELSE ""

ClassEndpoints(node, lines) ==
    LET is_controller ==
            \E ann \in SeqRange(node.annotations) : ann \in {"RestController", "Controller"}
        mapped == SelectSeq(node.methods, LAMBDA m : MappingAnnotation(m) # "")
    IN  IF ~is_controller THEN << >>
        ELSE [i \in 1..Len(mapped) |->
                [method |-> mapped[i].name,
                 path |-> EndpointPath(lines, mapped[i].line, MappingAnnotation(mapped[i])),
                 class |-> node.name,
                 line_number |-> mapped[i].line,
                 http_method |-> Upper(Replace(MappingAnnotation(mapped[i]), "Mapping", ""))]]

\* one entry per declarator of a field whose type name has the marker
FieldCalls(node, marker, excluded, key) ==
    LET typed == SelectSeq(node.fields,
                    LAMBDA f : Contains(f.type, marker)
                               /\ (excluded = "" \/ ~Contains(f.type, excluded)))
    IN  Flatten([i \in 1..Len(typed) |->
            [j \in 1..Len(typed[i].names) |->
                IF key = "service"
                THEN [class |-> node.name, service |-> typed[i].type,
                      field |-> typed[i].names[j]]
                ELSE [class |-> node.name, repository |-> typed[i].type,
                      field |-> typed[i].names[j]]]])

ClassDeclarations(tree) == SelectSeq(tree.types, LAMBDA t : t.kind = "class")

extract_api_flow(tree) ==
    LET classes == ClassDeclarations(tree)
    IN  [endpoints |->
            Flatten([i \in 1..Len(classes) |-> ClassEndpoints(classes[i], tree.lines)]),
         service_calls |->
            Flatten([i \in 1..Len(classes) |-> FieldCalls(classes[i], "Service", "", "service")]),
         repository_calls |->
            Flatten([i \in 1..Len(classes) |->
                        FieldCalls(classes[i], "Repository", "Service", "repository")])]

(***************************************************************************)
(* parse_java_file: the record built for one file (lines 322-355).         *)
(***************************************************************************)
get_package_name(tree) == IF tree.package = "" THEN "default" ELSE tree.package

ParsedData(file_path, tree) ==
    LET package_name == get_package_name(tree)
        kept == SelectSeq(ClassDeclarations(tree),
                          LAMBDA n : ~is_test_class(n.name, file_path))
        all_methods == Flatten([i \in 1..Len(tree.types) |-> tree.types[i].methods])
        kept_methods == SelectSeq(all_methods,
                            LAMBDA m : ~\E keyword \in TEST_KEYWORDS : Contains(m.name, keyword))
    IN  [package |-> package_name,
         classes |-> [i \in 1..Len(kept) |->
                        [name |-> kept[i].name,
                         line_number |-> kept[i].line,
                         package |-> package_name,
                         annotations |-> kept[i].annotations]],
         methods |-> [i \in 1..Len(kept_methods) |->
                        [name |-> kept_methods[i].name,
                         line_number |-> kept_methods[i].line,
                         annotations |-> kept_methods[i].annotations]],
         fields |-> << >>,
         dependencies |-> SelectSeq(tree.imports, LAMBDA p : ~is_external_dependency(p)),
         call_graph |-> << >>,
         inheritance |-> << >>,
         annotations |-> << >>,
         references |-> << >>,
         api_flow |-> extract_api_flow(tree)]

(***************************************************************************)
(* parse_java_file: the API-flow data derived from the whole index         *)
(* (lines 363-408).                                                        *)
(***************************************************************************)
ApiBasePath(data, endpoint) ==
    IF \E c \in SeqRange(data.classes) :
            /\ c.name = endpoint.class
            /\ \E ann \in SeqRange(c.annotations) : Contains(ann, "RequestMapping")
    THEN "api/v1"
    ELSE ""

RECURSIVE AddServiceCalls(_, _, _)
AddServiceCalls(entry, calls, class) ==
    IF calls = << >> THEN entry
    ELSE LET service_call == Head(calls)
             service_already_added ==
                \E existing \in SeqRange(entry.service_calls) :
                    /\ existing.class = service_call.class
                    /\ existing.service = service_call.service
                    /\ existing.field = service_call.field
             next == IF service_call.class = class /\ ~service_already_added
                     THEN [entry EXCEPT !.service_calls = Append(@, service_call)]
                     ELSE entry
         IN  AddServiceCalls(next, Tail(calls), class)

AddEndpoint(api_flow_data, data, endpoint) ==
    LET full_path == Replace(ApiBasePath(data, endpoint) \o "/" \o endpoint.path, "//", "/")
        started == IF full_path \in DictKeys(api_flow_data)
                   THEN api_flow_data
                   ELSE DictSet(api_flow_data, full_path,
                                [endpoints |-> << >>, service_calls |-> << >>])
        entry == DictVal(started, full_path)
        with_endpoint ==
            [entry EXCEPT !.endpoints =
                Append(@, [method |-> endpoint.method,
                           path |-> endpoint.path,
                           class |-> endpoint.class,
                           line_number |-> endpoint.line_number,
                           http_method |-> endpoint.http_method])]
    IN  DictSet(started, full_path,
                AddServiceCalls(with_endpoint, data.api_flow.service_calls, endpoint.class))

RECURSIVE AddEndpoints(_, _, _)
AddEndpoints(api_flow_data, data, endpoints) ==
    IF endpoints = << >> THEN api_flow_data
    ELSE AddEndpoints(AddEndpoint(api_flow_data, data, Head(endpoints)), data, Tail(endpoints))

RECURSIVE ApiFlowFrom(_, _)
ApiFlowFrom(api_flow_data, index_data) ==
    IF index_data = << >> THEN api_flow_data
    ELSE ApiFlowFrom(AddEndpoints(api_flow_data, Head(index_data).v,
                                  Head(index_data).v.api_flow.endpoints),
                     Tail(index_data))

\* the derivation without line 363: the entries are added to the data
\* loaded from the API-flow file, which holds the same derivation already
ApiFlowData_not_cleared(index_data) ==
    ApiFlowFrom(ApiFlowFrom(EmptyDict, index_data), index_data)

ApiFlowData(index_data) == ApiFlowFrom(EmptyDict, index_data)

(***************************************************************************)
(* The persisted JSON files.  json.dump writes the text of a dict piece by *)
(* piece through a buffered file: the opening brace, one piece per key,    *)
(* the closing brace.  A file is the sequence of pieces on disk.           *)
(***************************************************************************)
\* json.dump with the bug that the closing brace is not written
Dump_unclosed(d) ==
    << [t |-> "{"] >> \o [i \in 1..Len(d) |-> [t |-> "entry", k |-> d[i].k, v |-> d[i].v]]

Dump(d) ==
    << [t |-> "{"] >> \o [i \in 1..Len(d) |-> [t |-> "entry", k |-> d[i].k, v |-> d[i].v]]
        \o << [t |-> "}"] >>

\* json.loads accepts the text: braces around entries (a repeated key is legal)
WellFormed(bytes) ==
    /\ Len(bytes) >= 2
    /\ bytes[1].t = "{"
    /\ bytes[Len(bytes)].t = "}"
    /\ \A i \in 2..(Len(bytes) - 1) : bytes[i].t = "entry"

\* the dict json.load builds: for a repeated key the last value wins
RECURSIVE Entries(_, _)
Entries(d, pieces) ==
    IF pieces = << >> THEN d
    ELSE Entries(DictSet(d, Head(pieces).k, Head(pieces).v), Tail(pieces))

Parse(bytes) == Entries(EmptyDict, SubSeq(bytes, 2, Len(bytes) - 1))

\* load_from_file without an I/O error: {} for a missing file, for an empty
\* file and for a text json.load rejects (JSONDecodeError is caught)
load_from_file(file) ==
    IF ~file.exists THEN EmptyDict
    ELSE IF file.bytes = << >> THEN EmptyDict
    ELSE IF WellFormed(file.bytes) THEN Parse(file.bytes)
    ELSE EmptyDict

\* f.write of one piece at the writer's own offset
WriteAt(bytes, off, piece) ==
    IF off < Len(bytes)
    THEN [bytes EXCEPT ![off + 1] = piece]
    ELSE Append(bytes, piece)

(***************************************************************************)
(* State.                                                                  *)
(*   src            the text of every Java file of the directory           *)
(*   index_file     code_index/index.json                                  *)
(*   api_flow_file  code_index/api_flow.json                               *)
(*   workers        per thread: its position in scan_directory_incremental *)
(*                  and parse_java_file, and the locals of the call        *)
(*   scan           the scan loop: java_files, the loop index, and what    *)
(*                  the running scan has done so far (history: the two     *)
(*                  files and the number of I/O errors as they were when   *)
(*                  the running parse_java_file call began)                *)
(*   env            the order in which the directory lists its files, how  *)
(*                  often a file was edited and how often an I/O error     *)
(*                  was raised                                             *)
(*   seen           history: per file, the text at its last successful     *)
(*                  parse ("none" before that)                             *)
(*   ever_stored    history: the paths a completed write put in the index  *)
(*   committed      history: the dict last written completely to the index *)
(*   reader         a thread that calls load_from_file(INDEX_JSON); its    *)
(*                  field complete is history: the store as completely     *)
(*                  written before the read, and the stores that writers   *)
(*                  were in the middle of writing at the read              *)
(***************************************************************************)
VARIABLES src, index_file, api_flow_file, workers, scan, env, seen,
          ever_stored, committed, reader

\*   cm   the ContextManager of the query processor
\*   q    the running query (see process_query below)
VARIABLES cm, q

qvars == << cm, q >>

\*   cli  the command-line front end (cli.py): the parsed arguments, the
\*        lines still to be typed in interactive mode, and what was printed
\*   pf   one call of a function of the program: its name, its arguments
\*        and, once it has returned or raised, its outcome
VARIABLES cli, pf

auxvars == << cli, pf >>

IdleCli ==
    [pc |-> "idle", command |-> "", no_verify |-> FALSE, verify |-> TRUE,
     inputs |-> << >>, entry |-> "", printed |-> << >>]

IdleCall == [op |-> "none", done |-> FALSE, args |-> [none |-> TRUE], out |-> [none |-> TRUE]]

idxvars == << src, index_file, api_flow_file, workers, scan, env, seen,
              ever_stored, committed, reader >>

Workers == {1, 2}

\* the thread that runs scan_directory_incremental
Scanner == 1

NoFile == [exists |-> FALSE, bytes |-> << >>]

IdleWorker ==
    [pc |-> "idle", file_path |-> "", index_data |-> EmptyDict,
     out |-> << >>, off |-> 0, result |-> ""]

IdleScan ==
    [active |-> FALSE, java_files |-> << >>, i |-> 0, n |-> 0,
     parsed |-> {}, reparsed |-> {}, failed |-> {}, returned |-> {},
     index_before |-> NoFile, api_flow_before |-> NoFile, faults_before |-> 0]

(***************************************************************************)
(* scan_directory_incremental: the files os.walk yields (lines 621-635).   *)
(***************************************************************************)
Directory == JavaFiles \cup {"app/test/FooTest.java", "app/.git/hooks.java", "app/README.md"}

RECURSIVE Join(_, _)
Join(parts, sep) ==
    IF parts = << >> THEN ""
    ELSE IF Len(parts) = 1 THEN parts[1]
    ELSE parts[1] \o sep \o Join(Tail(parts), sep)

\* the root os.walk reports for the file
Root(path) == LET parts == Split(path, "/") IN Join(SubSeq(parts, 1, Len(parts) - 1), "/")

Enumerated(path) ==
    /\ ~Contains(Root(path), ".git")
    /\ ~Contains(Lower(Root(path)), "test")
    /\ EndsWith(Basename(path), ".java")

\* the orders in which os.walk may list the enumerated files; the order is
\* the directory's own, the same at every walk of an unchanged directory
Orders(S) ==
    {order \in [1..Cardinality(S) -> S] :
        \A i, j \in 1..Cardinality(S) : i # j => order[i] # order[j]}

(***************************************************************************)
(* save_to_file, step by step: open(file_path, "w") truncates the file,    *)
(* json.dump writes the pieces, leaving the with block closes the file.    *)
(***************************************************************************)
SavePcs == {"save_init", "save_index", "save_api"}
WritePcs == {"write_init", "write_index", "write_api"}

WritePcOf(pc) ==
    IF pc = "save_init" THEN "write_init"
    ELSE IF pc = "save_index" THEN "write_index" ELSE "write_api"

\* where the caller of save_to_file goes on
AfterSave(pc) ==
    IF pc \in {"save_init", "write_init"} THEN "loop"
    ELSE IF pc \in {"save_index", "write_index"} THEN "save_api"
    ELSE "return"

\* what the caller passes to save_to_file
SaveData(w) ==
    IF workers[w].pc = "save_init" THEN EmptyDict
    ELSE IF workers[w].pc = "save_index" THEN workers[w].index_data
    ELSE ApiFlowData(workers[w].index_data)

WritesIndex(pc) == pc \in {"save_init", "save_index", "write_init", "write_index"}

ResultAfter(w, pc) ==
    IF AfterSave(pc) = "return" THEN "Successfully parsed" ELSE workers[w].result

save_open(w) ==
    /\ workers[w].pc \in SavePcs
    /\ LET pc == workers[w].pc
           truncated == [exists |-> TRUE, bytes |-> << >>]
       IN  /\ workers' = [workers EXCEPT ![w].pc = WritePcOf(pc),
                                         ![w].out = Dump(SaveData(w)),
                                         ![w].off = 0]
           /\ IF WritesIndex(pc)
              THEN index_file' = truncated /\ UNCHANGED api_flow_file
              ELSE api_flow_file' = truncated /\ UNCHANGED index_file
    /\ UNCHANGED << qvars, auxvars, src, scan, env, seen, ever_stored, committed, reader >>

save_write(w) ==
    /\ workers[w].pc \in WritePcs
    /\ LET pc == workers[w].pc
           off == workers[w].off
           out == workers[w].out
           last == (off + 1 = Len(out))
           target == IF WritesIndex(pc) THEN index_file ELSE api_flow_file
           written == [target EXCEPT !.bytes = WriteAt(@, off, out[off + 1])]
       IN  /\ workers' = [workers EXCEPT
                            ![w].pc = IF last THEN AfterSave(pc) ELSE pc,
                            ![w].off = off + 1,
                            ![w].result = IF last THEN ResultAfter(w, pc) ELSE @]
           /\ IF WritesIndex(pc)
              THEN /\ index_file' = written
                   /\ UNCHANGED api_flow_file
                   /\ ever_stored' = IF last
                                     THEN ever_stored \cup DictKeys(load_from_file(written))
                                     ELSE ever_stored
                   /\ committed' = IF last THEN Parse(out) ELSE committed
              ELSE /\ api_flow_file' = written
                   /\ UNCHANGED << index_file, ever_stored, committed >>
    /\ UNCHANGED << qvars, auxvars, src, scan, env, seen, reader >>

\* open or f.write raises IOError: save_to_file logs it and returns, the file
\* stays as the pieces written so far left it
save_io_error(w) ==
    /\ workers[w].pc \in SavePcs \cup WritePcs
    /\ env.faults < MaxFaults
    /\ env' = [env EXCEPT !.faults = @ + 1]
    /\ workers' = [workers EXCEPT ![w].pc = AfterSave(workers[w].pc),
                                  ![w].result = ResultAfter(w, workers[w].pc)]
    /\ UNCHANGED << qvars, auxvars, src, index_file, api_flow_file, scan, seen, ever_stored,
                    committed, reader >>

(***************************************************************************)
(* parse_java_file(file_path), step by step.                               *)
(***************************************************************************)
\* lines 313-319: read and parse the file; a syntax error is returned as a
\* message before the index is loaded
parse_source(w) ==
    /\ workers[w].pc = "parse"
    /\ LET tree == SourceOf(workers[w].file_path, src[workers[w].file_path])
       IN  workers' = [workers EXCEPT
                ![w].pc = IF tree.valid THEN "load_index" ELSE "return",
                ![w].result = IF tree.valid THEN "" ELSE "Error parsing Java file"]
    /\ UNCHANGED << qvars, auxvars, src, index_file, api_flow_file, scan, env, seen, ever_stored,
                    committed, reader >>

\* lines 321-357: load the whole index, build the record, put it in the copy
StoreRecord(index_data, file_path) ==
    DictSet(index_data, file_path, ParsedData(file_path, SourceOf(file_path, src[file_path])))

load_index(w) ==
    /\ workers[w].pc = "load_index"
    /\ workers' = [workers EXCEPT
            ![w].pc = "save_index",
            ![w].index_data = StoreRecord(load_from_file(index_file), workers[w].file_path)]
    /\ UNCHANGED << qvars, auxvars, src, index_file, api_flow_file, scan, env, seen, ever_stored,
                    committed, reader >>

\* open or read raises IOError inside load_from_file: it is logged and {} is
\* returned
load_io_error(w) ==
    /\ workers[w].pc = "load_index"
    /\ env.faults < MaxFaults
    /\ env' = [env EXCEPT !.faults = @ + 1]
    /\ workers' = [workers EXCEPT
            ![w].pc = "save_index",
            ![w].index_data = StoreRecord(EmptyDict, workers[w].file_path)]
    /\ UNCHANGED << qvars, auxvars, src, index_file, api_flow_file, scan, seen, ever_stored,
                    committed, reader >>

(***************************************************************************)
(* scan_directory_incremental(directory) on the Scanner thread.            *)
(***************************************************************************)
\* lines 616-641: enumerate the files; nothing more happens without any
scan_start ==
    /\ workers[Scanner].pc = "idle"
    /\ scan.n < MaxScans
    /\ LET java_files == env.listing
       IN /\ scan' = [IdleScan EXCEPT !.active = java_files # << >>,
                                      !.java_files = java_files,
                                      !.i = 1,
                                      !.n = scan.n + 1]
          /\ workers' = [workers EXCEPT
                ![Scanner].pc = IF java_files = << >> THEN "idle" ELSE "init"]
    /\ UNCHANGED << qvars, auxvars, src, index_file, api_flow_file, env, seen, ever_stored,
                    committed, reader >>

\* initialize_index (lines 130-134)
initialize_index ==
    /\ workers[Scanner].pc = "init"
    /\ workers' = [workers EXCEPT
            ![Scanner].pc = IF ~index_file.exists \/ index_file.bytes = << >>
                            THEN "save_init" ELSE "loop"]
    /\ UNCHANGED << qvars, auxvars, src, index_file, api_flow_file, scan, env, seen, ever_stored,
                    committed, reader >>

\* lines 648-650: the loop head calls parse_java_file on the next file, or
\* the scan ends
scan_next ==
    /\ workers[Scanner].pc = "loop"
    /\ IF scan.i <= Len(scan.java_files)
       THEN LET f == scan.java_files[scan.i]
            IN  /\ workers' = [workers EXCEPT ![Scanner].pc = "parse",
                                              ![Scanner].file_path = f,
                                              ![Scanner].index_data = EmptyDict,
                                              ![Scanner].out = << >>,
                                              ![Scanner].off = 0,
                                              ![Scanner].result = ""]
                /\ scan' = [scan EXCEPT
                        !.parsed = @ \cup {f},
                        !.index_before = index_file,
                        !.api_flow_before = api_flow_file,
                        !.faults_before = env.faults,
                        !.reparsed = IF seen[f] = src[f] THEN @ \cup {f} ELSE @]
       ELSE /\ workers' = [workers EXCEPT ![Scanner] = IdleWorker]
            /\ scan' = [scan EXCEPT !.active = FALSE]
    /\ UNCHANGED << qvars, auxvars, src, index_file, api_flow_file, env, seen, ever_stored,
                    committed, reader >>

\* scan_result with the bug that a parse error ends the scan
scan_result_fatal ==
    /\ workers[Scanner].pc = "return"
    /\ scan.active
    /\ LET f == workers[Scanner].file_path
           error == Contains(workers[Scanner].result, "Error")
       IN  /\ scan' = [scan EXCEPT !.i = IF error THEN Len(scan.java_files) + 1 ELSE @ + 1,
                                   !.returned = @ \cup {f},
                                   !.failed = IF error THEN @ \cup {f} ELSE @]
           /\ seen' = IF error THEN seen ELSE [seen EXCEPT ![f] = src[f]]
    /\ workers' = [workers EXCEPT ![Scanner].pc = "loop"]
    /\ UNCHANGED << qvars, auxvars, src, index_file, api_flow_file, env, ever_stored, committed,
                    reader >>

\* lines 650-655: parse_java_file has returned; an error message is logged
\* and the loop goes on
scan_result ==
    /\ workers[Scanner].pc = "return"
    /\ scan.active
    /\ LET f == workers[Scanner].file_path
           error == Contains(workers[Scanner].result, "Error")
       IN  /\ scan' = [scan EXCEPT !.i = @ + 1,
                                   !.returned = @ \cup {f},
                                   !.failed = IF error THEN @ \cup {f} ELSE @]
           /\ seen' = IF error THEN seen ELSE [seen EXCEPT ![f] = src[f]]
    /\ workers' = [workers EXCEPT ![Scanner].pc = "loop"]
    /\ UNCHANGED << qvars, auxvars, src, index_file, api_flow_file, env, ever_stored, committed,
                    reader >>

\* the directory is edited between two scans
edit_file ==
    /\ workers[Scanner].pc = "idle"
    /\ env.edits < MaxEdits
    /\ \E f \in JavaFiles, c \in Contents :
          /\ c # src[f]
          /\ src' = [src EXCEPT ![f] = c]
    /\ env' = [env EXCEPT !.edits = @ + 1]
    /\ UNCHANGED << qvars, auxvars, index_file, api_flow_file, workers, scan, seen, ever_stored,
                    committed, reader >>

(***************************************************************************)
(* Parallel indexing: every worker thread runs one parse_java_file call,   *)
(* and a reader thread loads the index.                                    *)
(***************************************************************************)
worker_return(w) ==
    /\ workers[w].pc = "return"
    /\ ~scan.active
    /\ workers' = [workers EXCEPT ![w].pc = "done"]
    /\ UNCHANGED << qvars, auxvars, src, index_file, api_flow_file, scan, env, seen, ever_stored,
                    committed, reader >>

reader_load ==
    /\ reader.pc = "idle"
    /\ LET writers == {w \in Workers : workers[w].pc \in {"write_init", "write_index"}}
       IN  reader' = [pc |-> "done",
                      result |-> load_from_file(index_file),
                      complete |-> {committed} \cup {Parse(workers[w].out) : w \in writers}]
    /\ UNCHANGED << qvars, auxvars, src, index_file, api_flow_file, workers, scan, env, seen,
                    ever_stored, committed >>

IdleQueryState ==
    [pc |-> "idle", query |-> "", template_name |-> "", verify |-> FALSE,
     context |-> [app_overview |-> [summary |-> ""], components |-> << >>,
                  api_flows |-> << >>, matrix |-> << >>],
     prompt |-> "", response |-> "", verified_response |-> "", result |-> "",
     stages |-> << >>, calls |-> << >>, asked |-> 0]

(***************************************************************************)
(* Specifications.                                                         *)
(***************************************************************************)
InitIndexer ==
    /\ src = [f \in JavaFiles |-> "v1"]
    /\ index_file = NoFile
    /\ api_flow_file = NoFile
    /\ workers = [w \in Workers |-> IdleWorker]
    /\ scan = IdleScan
    /\ \E listing \in Orders({f \in Directory : Enumerated(f)}) :
          env = [edits |-> 0, faults |-> 0, listing |-> listing]
    /\ seen = [f \in JavaFiles |-> "none"]
    /\ ever_stored = {}
    /\ committed = EmptyDict
    /\ reader = [pc |-> "idle", result |-> EmptyDict, complete |-> {}]

\* the sequential indexer: scans of a directory that is edited between them
IdleContextManager ==
    [file_summaries |-> << >>, file_summary_embeddings |-> << >>,
     app_overview |-> [summary |-> "Application overview not available."],
     api_flows |-> EmptyDict, component_matrix |-> EmptyDict,
     prompt_templates |-> EmptyDict]

Init ==
    /\ InitIndexer
    /\ cm = IdleContextManager
    /\ q = IdleQueryState
    /\ cli = IdleCli
    /\ pf = IdleCall

Next ==
    \/ scan_start
    \/ initialize_index
    \/ scan_next
    \/ parse_source(Scanner)
    \/ load_index(Scanner)
    \/ load_io_error(Scanner)
    \/ save_open(Scanner)
    \/ save_write(Scanner)
    \/ save_io_error(Scanner)
    \/ scan_result
    \/ edit_file

vars == << idxvars, qvars, auxvars >>

Spec == Init /\ [][Next]_vars

\* two workers parse two distinct files at once while a reader loads the
\* index; the index file is complete when they start

InitPar ==
    /\ src \in {s \in [JavaFiles -> {"v1", "v2"}] : s["app/BarService.java"] = "v1"}
    /\ \E prior \in {EmptyDict,
                     DictSet(EmptyDict, "app/FooController.java",
                             ParsedData("app/FooController.java",
                                        SourceOf("app/FooController.java", "v1")))} :
          /\ index_file = [exists |-> TRUE, bytes |-> Dump(prior)]
          /\ committed = prior
          /\ ever_stored = DictKeys(prior)
    /\ api_flow_file = NoFile
    /\ workers = [w \in Workers |->
                    [IdleWorker EXCEPT
                        !.pc = "parse",
                        !.file_path = IF w = 1 THEN "app/FooController.java"
                                      ELSE "app/BarService.java"]]
    /\ scan = IdleScan
    /\ env = [edits |-> 0, faults |-> 0, listing |-> << >>]
    /\ seen = [f \in JavaFiles |-> "none"]
    /\ reader = [pc |-> "idle", result |-> EmptyDict, complete |-> {}]
    /\ cm = IdleContextManager
    /\ q = IdleQueryState
    /\ cli = IdleCli
    /\ pf = IdleCall

NextPar ==
    \/ \E w \in Workers :
          \/ parse_source(w)
          \/ load_index(w)
          \/ save_open(w)
          \/ save_write(w)
          \/ worker_return(w)
    \/ reader_load

SpecPar == InitPar /\ [][NextPar]_vars

(***************************************************************************)
(* Claims about the indexer.                                               *)
(***************************************************************************)
IndexKeys == DictKeys(load_from_file(index_file))

\* C1: when two workers have run parse_java_file at once for two distinct
\* file paths, both records are in the index file after both have finished.
C1_BothRecordsPresent ==
    (\A w \in Workers : workers[w].pc = "done" /\ workers[w].result = "Successfully parsed")
        => {workers[w].file_path : w \in Workers} \subseteq IndexKeys

\* C2: a reader that loads the index while writers replace records gets the
\* complete store from before a write or the complete store a writer is
\* writing, never an empty or a mixed one.
C2_ReaderSeesCompleteStore ==
    reader.pc = "done" => reader.result \in reader.complete

\* C3: a scan parses no file whose text is the text of its last successful
\* parse.
C3_NoReparseOfUnchanged == scan.reparsed = {}

ScanEnded == scan.n > 0 /\ ~scan.active /\ workers[Scanner].pc = "idle"

C5_StoredPathsPersist ==
    workers[Scanner].pc \in {"idle", "loop"} => ever_stored \subseteq IndexKeys

(***************************************************************************)
(* The query engine (spring_boot_analyzer/analyzer.py).                    *)
(*                                                                         *)
(* The prompt templates generate_llm_prompt_templates writes, shortened to *)
(* their headings and placeholder lines.                                   *)
(***************************************************************************)
general_analysis_template ==
    "# Spring Boot Application Analysis\n"
    \o "## Application Context\n{insert relevant high-level application summary}\n"
    \o "## Components Relevant to Query\n{insert summaries of the 3-5 most relevant components}\n"
    \o "## API Flows Related to Query\n{insert API flow data for endpoints relevant to the query}\n"
    \o "## Question\n{insert specific question}\n"

feature_implementation_template ==
    "# Feature Implementation Analysis\n"
    \o "## Application Context\n{insert relevant high-level application summary}\n"
    \o "## Components Relevant to Feature\n{insert summaries of the 3-5 most relevant components}\n"
    \o "## API Flows Related to Feature\n{insert API flow data for endpoints relevant to the feature}\n"
    \o "## Feature Request\n{insert feature description}\n"
    \o "## Example Response Format:\n- [ExistingComponent1.java]: {specific changes}\n"

code_change_impact_template ==
    "# Code Change Impact Analysis\n"
    \o "## Application Context\n{insert relevant high-level application summary}\n"
    \o "## Component Relationship Matrix\n{insert relevant portion of component relationship matrix}\n"
    \o "## Proposed Change\n{insert description of proposed code change}\n"
    \o "## Example Response Format:\n- [Component1.java]: {specific impact}\n"

self_correction_template ==
    "# Self-Correction Review\n"
    \o "## Original Response\n{insert original LLM response}\n"
    \o "## Application Context\n{insert relevant high-level application summary}\n"
    \o "## Component Relationship Matrix\n{insert relevant portion of component relationship matrix}\n"
    \o "## Example Response Format:\nCorrected response:\n{insert corrected response}\n"

ShippedTemplates ==
    << [k |-> "general_analysis_template", v |-> general_analysis_template],
       [k |-> "feature_implementation_template", v |-> feature_implementation_template],
       [k |-> "code_change_impact_template", v |-> code_change_impact_template],
       [k |-> "self_correction_template", v |-> self_correction_template] >>

\* the default format of build_prompt (lines 344-367)
DefaultPromptTemplate ==
    "# Spring Boot Application Analysis\n"
    \o "## Application Context\n{app_overview}\n"
    \o "## Components Relevant to Query\n{components}\n"
    \o "## API Flows Related to Query\n{api_flows}\n"
    \o "## Component Relationships\n{matrix}\n"
    \o "## Question\n{query}\n"

\* the default format of _verify_response (lines 433-451)
DefaultVerificationTemplate ==
    "# Self-Correction Review\n"
    \o "## Original Response\n{response}\n"
    \o "## Application Context\n{app_overview}\n"
    \o "## Component Relationships\n{matrix}\n"

(***************************************************************************)
(* SentenceTransformer.encode and cosine_similarity.  The model maps a     *)
(* text to a vector; the vectors here are on an integer grid.  A           *)
(* similarity is kept as the exact fraction dot / sqrt(norms) by its       *)
(* numerator and the square of its denominator.                            *)
(***************************************************************************)
Encode(text) ==
    IF Contains(text, "controller") \/ Contains(text, "endpoint") THEN <<4, 3>>
    ELSE IF Contains(text, "service") THEN <<3, 4>>
    ELSE IF Contains(text, "repository") THEN <<0, 5>>
    ELSE <<5, 0>>

Dot(a, b) == a[1] * b[1] + a[2] * b[2]

cosine_similarity(a, b) ==
    IF Dot(a, a) = 0 \/ Dot(b, b) = 0
    THEN [num |-> 0, den2 |-> 1]
    ELSE [num |-> Dot(a, b), den2 |-> Dot(a, a) * Dot(b, b)]

\* x >= y for two similarities
SimGeq(x, y) ==
    IF x.num >= 0 /\ y.num >= 0 THEN x.num * x.num * y.den2 >= y.num * y.num * x.den2
    ELSE IF x.num >= 0 THEN TRUE
    ELSE IF y.num >= 0 THEN FALSE
    ELSE x.num * x.num * y.den2 <= y.num * y.num * x.den2

\* sorted(items, key=similarity, reverse=True): a stable sort, so an item goes
\* behind every item whose similarity is at least its own
\* InsertSorted with the bug that an item goes in front of the items whose
\* similarity equals its own (a sort that is not stable)
RECURSIVE InsertSorted_front(_, _)
InsertSorted_front(sorted, item) ==
    IF sorted = << >> THEN <<item>>
    ELSE IF SimGeq(Head(sorted).v, item.v) /\ ~SimGeq(item.v, Head(sorted).v)
    THEN <<Head(sorted)>> \o InsertSorted_front(Tail(sorted), item)
    ELSE <<item>> \o sorted

RECURSIVE InsertSorted(_, _)
InsertSorted(sorted, item) ==
    IF sorted = << >> THEN <<item>>
    ELSE IF SimGeq(Head(sorted).v, item.v)
    THEN <<Head(sorted)>> \o InsertSorted(Tail(sorted), item)
    ELSE <<item>> \o sorted

RECURSIVE SortedDesc(_, _)
SortedDesc(sorted, items) ==
    IF items = << >> THEN sorted
    ELSE SortedDesc(InsertSorted(sorted, Head(items)), Tail(items))

(***************************************************************************)
(* ContextManager: what the constructor loaded from the summary directory. *)
(***************************************************************************)
FileSummaries ==
    << [k |-> "FooController",
        v |-> [file_path |-> "summary/file_summaries/FooController.md",
               summary |-> "Foo controller: endpoint /a/b", type |-> "controller"]],
       [k |-> "BarService",
        v |-> [file_path |-> "summary/file_summaries/BarService.md",
               summary |-> "Bar service: business logic", type |-> "service"]],
       [k |-> "BarRepository",
        v |-> [file_path |-> "summary/file_summaries/BarRepository.md",
               summary |-> "Bar repository: data access", type |-> "repository"]] >>

ApiFlows ==
    << [k |-> "api/v1/b:GET",
        v |-> [endpoint |-> "api/v1/b", method |-> "GET",
               controller |-> [file |-> "FooController.java", method |-> "bar"],
               serviceChain |-> << [file |-> "BarService.java"] >>,
               repositoryAccess |-> << [file |-> "BarRepository.java"] >>]] >>

\* _load_component_matrix reads the separator line under the column heads
\* as a row (lines[3:], line 172), so the generated file gives one entry more
ComponentMatrix ==
    << [k |-> "-----------",
        v |-> [depends_on |-> <<"-----------">>, used_by |-> <<"--------">>]],
       [k |-> "BarRepository",
        v |-> [depends_on |-> << >>, used_by |-> <<"BarService">>]],
       [k |-> "BarService",
        v |-> [depends_on |-> <<"BarRepository">>, used_by |-> <<"FooController">>]],
       [k |-> "FooController",
        v |-> [depends_on |-> <<"BarService">>, used_by |-> << >>]] >>

\* _create_embeddings (lines 211-225)
create_embeddings(file_summaries) ==
    [i \in 1..Len(file_summaries) |->
        [k |-> file_summaries[i].k, v |-> Encode(file_summaries[i].v.summary)]]

\* a summary directory with every artifact, and one with none
ContextManagers ==
    { [file_summaries |-> fs,
       file_summary_embeddings |-> create_embeddings(fs),
       app_overview |-> [summary |-> IF fs = << >>
                                     THEN "Application overview not available."
                                     ELSE "A banking application."],
       api_flows |-> IF fs = << >> THEN EmptyDict ELSE ApiFlows,
       component_matrix |-> IF fs = << >> THEN EmptyDict ELSE ComponentMatrix,
       prompt_templates |-> SelectSeq(ShippedTemplates, LAMBDA t : t.k \in names)]
      : fs \in {<< >>, FileSummaries},
        names \in { {}, {"self_correction_template"},
                    DictKeys(ShippedTemplates) \ {"self_correction_template"},
                    DictKeys(ShippedTemplates) } }

(***************************************************************************)
(* ContextManager methods.                                                 *)
(***************************************************************************)
DefaultTopN == 5

\* get_relevant_components (lines 227-248)
get_relevant_components(c, query, top_n) ==
    LET query_embedding == Encode(query)
        file_similarities ==
            [i \in 1..Len(c.file_summary_embeddings) |->
                [k |-> c.file_summary_embeddings[i].k,
                 v |-> cosine_similarity(query_embedding, c.file_summary_embeddings[i].v)]]
        ranked == SortedDesc(<< >>, file_similarities)
        sorted_components ==
            SubSeq(ranked, 1, IF Len(ranked) < top_n THEN Len(ranked) ELSE top_n)
    IN  [i \in 1..Len(sorted_components) |->
            [k |-> sorted_components[i].k,
             v |-> [summary |-> DictVal(c.file_summaries, sorted_components[i].k).summary,
                    type |-> DictVal(c.file_summaries, sorted_components[i].k).type,
                    similarity |-> sorted_components[i].v]]]

\* get_related_api_flows that looks at the controller of a flow only
get_related_api_flows_controller_only(c, components) ==
    LET component_names == DictKeys(components)
        Name(file) == Replace(file, ".java", "")
    IN  SelectSeq(c.api_flows, LAMBDA e : Name(e.v.controller.file) \in component_names)

\* get_related_api_flows (lines 250-272)
get_related_api_flows(c, components) ==
    LET component_names == DictKeys(components)
        Name(file) == Replace(file, ".java", "")
    IN  SelectSeq(c.api_flows,
            LAMBDA e :
                \/ Name(e.v.controller.file) \in component_names
                \/ \E s \in SeqRange(e.v.serviceChain) : Name(s.file) \in component_names
                \/ \E r \in SeqRange(e.v.repositoryAccess) : Name(r.file) \in component_names)

\* get_related_matrix_entries (lines 274-289)
get_related_matrix_entries(c, components) ==
    LET component_names == DictKeys(components)
    IN  SelectSeq(c.component_matrix,
            LAMBDA e :
                \/ e.k \in component_names
                \/ SeqRange(e.v.depends_on) \cap component_names # {}
                \/ SeqRange(e.v.used_by) \cap component_names # {})

\* get_prompt_template (lines 291-293)
get_prompt_template(c, template_name) ==
    IF template_name \in DictKeys(c.prompt_templates)
    THEN DictVal(c.prompt_templates, template_name)
    ELSE ""

(***************************************************************************)
(* QueryProcessor.build_prompt and the texts it formats.                   *)
(***************************************************************************)
RECURSIVE ConcatAll(_)
ConcatAll(texts) == IF texts = << >> THEN "" ELSE Head(texts) \o ConcatAll(Tail(texts))

components_text(context) ==
    ConcatAll([i \in 1..Len(context.components) |->
        "### " \o context.components[i].k \o "\n"
            \o context.components[i].v.summary \o "\n\n"])

\* json.dumps(context["api_flows"], indent=2), the keys the model keeps
FilesJson(list) ==
    "[" \o Join([i \in 1..Len(list) |-> "{\"file\": \"" \o list[i].file \o "\"}"], ", ") \o "]"

FlowJson(e) ==
    "\"" \o e.k \o "\": {\"endpoint\": \"" \o e.v.endpoint
        \o "\", \"method\": \"" \o e.v.method
        \o "\", \"controller\": {\"file\": \"" \o e.v.controller.file
        \o "\", \"method\": \"" \o e.v.controller.method
        \o "\"}, \"serviceChain\": " \o FilesJson(e.v.serviceChain)
        \o ", \"repositoryAccess\": " \o FilesJson(e.v.repositoryAccess) \o "}"

api_flows_text(context) ==
    IF context.api_flows = << >> THEN "{}"
    ELSE "{\n" \o Join([i \in 1..Len(context.api_flows) |-> FlowJson(context.api_flows[i])], ",\n")
            \o "\n}"

matrix_text(context) ==
    ConcatAll([i \in 1..Len(context.matrix) |->
        LET relationships == context.matrix[i].v
            depends_on == IF relationships.depends_on # << >>
                          THEN Join(relationships.depends_on, ", ") ELSE "None"
            used_by == IF relationships.used_by # << >>
                       THEN Join(relationships.used_by, ", ") ELSE "None"
        IN  "- " \o context.matrix[i].k \o ":\n  - Depends on: " \o depends_on
                \o "\n  - Used by: " \o used_by \o "\n\n"])

\* build_prompt without lines 341-367: the named template is used as it is
\* found, so a missing one gives the empty text
build_prompt_no_default(c, query, context, template_name) ==
    LET template == get_prompt_template(c, template_name)
        overview == context.app_overview.summary
        p1 == Replace(template, "{insert relevant high-level application summary}", overview)
        p2 == Replace(p1, "{insert summaries of the 3-5 most relevant components}",
                      components_text(context))
        p3 == Replace(p2, "{insert API flow data for endpoints relevant to the query}",
                      api_flows_text(context))
        p4 == Replace(p3, "{insert specific question}", query)
        p5 == Replace(p4, "{app_overview}", overview)
        p6 == Replace(p5, "{components}", components_text(context))
        p7 == Replace(p6, "{api_flows}", api_flows_text(context))
        p8 == Replace(p7, "{matrix}", matrix_text(context))
    IN  Replace(p8, "{query}", query)

\* build_prompt (lines 338-397)
build_prompt(c, query, context, template_name) ==
    LET named == get_prompt_template(c, template_name)
        template == IF named = "" THEN DefaultPromptTemplate ELSE named
        overview == context.app_overview.summary
        p1 == Replace(template, "{insert relevant high-level application summary}", overview)
        p2 == Replace(p1, "{insert summaries of the 3-5 most relevant components}",
                      components_text(context))
        p3 == Replace(p2, "{insert API flow data for endpoints relevant to the query}",
                      api_flows_text(context))
        p4 == Replace(p3, "{insert specific question}", query)
        p5 == Replace(p4, "{app_overview}", overview)
        p6 == Replace(p5, "{components}", components_text(context))
        p7 == Replace(p6, "{api_flows}", api_flows_text(context))
        p8 == Replace(p7, "{matrix}", matrix_text(context))
    IN  Replace(p8, "{query}", query)

\* the prompt _verify_response sends (lines 429-468): each of the first three
\* replacements starts again from the template, so only the last one stays
verification_prompt(c, response, context) ==
    LET named == get_prompt_template(c, "self_correction_template")
        verification_template == IF named = "" THEN DefaultVerificationTemplate ELSE named
        overview == context.app_overview.summary
        v3 == Replace(verification_template,
                      "{insert relevant portion of component relationship matrix}",
                      matrix_text(context))
        v4 == Replace(v3, "{response}", response)
        v5 == Replace(v4, "{app_overview}", overview)
    IN  Replace(v5, "{matrix}", matrix_text(context))

\* LLMClient.analyze_application (lines 311-329): one request; the text of
\* the answer, or the text of the exception behind "Error: "
analyze_application(outcome) ==
    IF outcome.ok THEN outcome.text ELSE "Error: " \o outcome.text

(***************************************************************************)
(* QueryProcessor.process_query, step by step.                             *)
(*   cm   the ContextManager of the processor                              *)
(*   q    the running query: its arguments, its locals, the stages it has  *)
(*        passed and the requests it has sent to the text-generation       *)
(*        service (history), and how many queries were asked               *)
(***************************************************************************)
Queries == {"How does the controller work?", "What does {matrix} mean for the service?"}

TemplateNames ==
    {"general_analysis_template", "feature_implementation_template",
     "code_change_impact_template", "no_such_template"}

\* what a request to the service ends in: an answer, or an exception
Outcomes ==
    { [ok |-> TRUE, text |-> "Requests go through [FooController.java]."],
      [ok |-> TRUE, text |-> "Corrected: [BarService.java] holds the logic."],
      [ok |-> FALSE, text |-> "Connection error."] }

\* process_query is called
receive_query ==
    /\ q.pc \in {"idle", "delivered"}
    /\ q.asked < MaxQueries
    /\ \E query \in Queries, template_name \in TemplateNames, verify \in BOOLEAN :
          q' = [IdleQueryState EXCEPT !.pc = "received",
                                 !.query = query,
                                 !.template_name = template_name,
                                 !.verify = verify,
                                 !.stages = <<"Received">>,
                                 !.asked = q.asked + 1]
    /\ UNCHANGED << cm, idxvars, auxvars >>

\* build_context with the bug that the similarity is written into the loaded
\* summaries instead of into a new dict
build_context_caching ==
    /\ q.pc = "received"
    /\ LET relevant_components == get_relevant_components(cm, q.query, DefaultTopN)
       IN  /\ q' = [q EXCEPT
                    !.pc = "context",
                    !.context = [app_overview |-> cm.app_overview,
                                 components |-> relevant_components,
                                 api_flows |-> get_related_api_flows(cm, relevant_components),
                                 matrix |-> get_related_matrix_entries(cm, relevant_components)],
                    !.stages = Append(@, "ContextBuilt")]
           /\ cm' = [cm EXCEPT !.file_summaries =
                        [i \in 1..Len(@) |->
                            [k |-> @[i].k,
                             v |-> [file_path |-> @[i].v.file_path,
                                    summary |-> @[i].v.summary,
                                    type |-> @[i].v.type,
                                    similarity |-> DictVal(relevant_components, @[i].k).similarity]]]]
    /\ UNCHANGED << idxvars, auxvars >>

\* lines 403-412
build_context ==
    /\ q.pc = "received"
    /\ LET relevant_components == get_relevant_components(cm, q.query, DefaultTopN)
       IN  q' = [q EXCEPT
                !.pc = "context",
                !.context = [app_overview |-> cm.app_overview,
                             components |-> relevant_components,
                             api_flows |-> get_related_api_flows(cm, relevant_components),
                             matrix |-> get_related_matrix_entries(cm, relevant_components)],
                !.stages = Append(@, "ContextBuilt")]
    /\ UNCHANGED << cm, idxvars, auxvars >>

\* line 415
prompt_built ==
    /\ q.pc = "context"
    /\ q' = [q EXCEPT !.pc = "prompt",
                      !.prompt = build_prompt(cm, q.query, q.context, q.template_name),
                      !.stages = Append(@, "PromptBuilt")]
    /\ UNCHANGED << cm, idxvars, auxvars >>

\* one client.chat.completions.create request, as the history keeps it
Request(stage, prompt, outcome) ==
    [stage |-> stage, prompt |-> prompt, ok |-> outcome.ok, text |-> outcome.text,
     after |-> q.stages]

\* line 416
answer ==
    /\ q.pc = "prompt"
    /\ \E outcome \in Outcomes :
          q' = [q EXCEPT !.pc = "answered",
                         !.response = analyze_application(outcome),
                         !.calls = Append(@, Request("Answered", q.prompt, outcome)),
                         !.stages = Append(@, "Answered")]
    /\ UNCHANGED << cm, idxvars, auxvars >>

\* verify_response with the bug that the verify flag is not looked at
verify_response_always ==
    /\ q.pc = "answered"
    /\ \E outcome \in Outcomes :
          q' = [q EXCEPT
                !.pc = "verified",
                !.verified_response = analyze_application(outcome),
                !.calls = Append(@, Request("Verified",
                                            verification_prompt(cm, q.response, q.context),
                                            outcome)),
                !.stages = Append(@, "Verified")]
    /\ UNCHANGED << cm, idxvars, auxvars >>

\* lines 419-422 and _verify_response
verify_response ==
    /\ q.pc = "answered"
    /\ q.verify
    /\ \E outcome \in Outcomes :
          q' = [q EXCEPT
                !.pc = "verified",
                !.verified_response = analyze_application(outcome),
                !.calls = Append(@, Request("Verified",
                                            verification_prompt(cm, q.response, q.context),
                                            outcome)),
                !.stages = Append(@, "Verified")]
    /\ UNCHANGED << cm, idxvars, auxvars >>

\* deliver with the bug that the first answer is returned after verification
deliver_first_answer ==
    /\ \/ q.pc = "answered" /\ ~q.verify
       \/ q.pc = "verified"
    /\ q' = [q EXCEPT !.pc = "delivered",
                      !.result = q.response,
                      !.stages = Append(@, "Delivered")]
    /\ UNCHANGED << cm, idxvars, auxvars >>

\* lines 422 and 424: what process_query returns
deliver ==
    /\ \/ q.pc = "answered" /\ ~q.verify
       \/ q.pc = "verified"
    /\ q' = [q EXCEPT !.pc = "delivered",
                      !.result = IF q.verify THEN q.verified_response ELSE q.response,
                      !.stages = Append(@, "Delivered")]
    /\ UNCHANGED << cm, idxvars, auxvars >>

InitQuery ==
    /\ InitIndexer
    /\ cm \in ContextManagers
    /\ q = IdleQueryState
    /\ cli = IdleCli
    /\ pf = IdleCall

NextQuery ==
    \/ receive_query
    \/ build_context
    \/ prompt_built
    \/ answer
    \/ verify_response
    \/ deliver

SpecQuery == InitQuery /\ [][NextQuery]_vars

(***************************************************************************)
(* Claims about the query engine.                                          *)
(***************************************************************************)
ExpectedStages(verify) ==
    IF verify
    THEN <<"Received", "ContextBuilt", "PromptBuilt", "Answered", "Verified", "Delivered">>
    ELSE <<"Received", "ContextBuilt", "PromptBuilt", "Answered", "Delivered">>

\* C6: a query passes the stages in order; the service is asked only after
\* the context and the prompt are built, the verification request only
\* after the first answer; a delivered query has sent exactly one request
\* when verification is skipped and exactly two when it is enabled.
C6_StagesInOrder ==
    /\ Len(q.stages) <= Len(ExpectedStages(q.verify))
    /\ q.stages = SubSeq(ExpectedStages(q.verify), 1, Len(q.stages))
    /\ \A i \in 1..Len(q.calls) :
          /\ {"ContextBuilt", "PromptBuilt"} \subseteq SeqRange(q.calls[i].after)
          /\ q.calls[i].stage = "Verified" => "Answered" \in SeqRange(q.calls[i].after)
          /\ i = 1 => q.calls[i].prompt = q.prompt
    /\ q.pc = "delivered" => Len(q.calls) = IF q.verify THEN 2 ELSE 1

\* C6 witness: a query with verification was delivered after two requests.
C6_Witness ==
    /\ q.pc = "delivered"
    /\ q.verify
    /\ Len(q.calls) = 2
    /\ q.calls[2].stage = "Verified"

C8_ErrorOnlyAfterRetries ==
    q.pc = "delivered" =>
        \A i \in 1..Len(q.calls) :
            ~q.calls[i].ok =>
                Cardinality({j \in 1..Len(q.calls) : q.calls[j].stage = q.calls[i].stage}) > 1

\* C9: when the Answered request has failed, the Verified stage is not
\* entered and the caller receives the error value.
C9_AnswerFailureIsTerminal ==
    (Len(q.calls) >= 1 /\ ~q.calls[1].ok) =>
        /\ "Verified" \notin SeqRange(q.stages)
        /\ q.pc = "delivered" => StartsWith(q.result, "Error: ")

\* C10: no step of process_query changes the ContextManager, the index file,
\* the API-flow file or a source file.
C10_QueryHasNoSideEffect ==
    [][q' # q => /\ cm' = cm
                 /\ index_file' = index_file
                 /\ api_flow_file' = api_flow_file
                 /\ src' = src]_vars

\* C10 witness: a verified query over a populated summary directory was
\* delivered.
C10_Witness ==
    /\ q.pc = "delivered"
    /\ q.verify
    /\ cm.file_summaries # << >>
    /\ q.context.components # << >>
    /\ q.context.api_flows # << >>

(***************************************************************************)
(* The command line (spring_boot_analyzer/cli.py).  main parses the        *)
(* arguments, builds the QueryProcessor and dispatches on the command;     *)
(* run_interactive_mode reads lines until exit or quit.                    *)
(***************************************************************************)
MaxInputs == 1

Commands == {"query", "feature", "impact", "interactive"}

\* s.strip() for blanks
RECURSIVE Strip(_)
Strip(s) ==
    IF s = "" THEN ""
    ELSE IF SubSeq(s, 1, 1) = " " THEN Strip(SubSeq(s, 2, Len(s)))
    ELSE IF SubSeq(s, Len(s), Len(s)) = " " THEN Strip(SubSeq(s, 1, Len(s) - 1))
    ELSE s

\* what the user types at the prompt of the interactive mode
InteractiveLines ==
    {"How does the controller work?", "Feature: add an audit log ", "impact: rename bar"}

CommandTexts == {"How does the controller work?", "add an audit log"}

\* the lines of one interactive session: some requests, then exit
Sessions ==
    {Append(lines, "exit") :
        lines \in UNION {[1..n -> InteractiveLines] : n \in 0..MaxInputs}}

\* the process_query call a QueryProcessor method makes
ProcessQueryCall(query, template_name, verify) ==
    [IdleQueryState EXCEPT !.pc = "received",
                           !.query = query,
                           !.template_name = template_name,
                           !.verify = verify,
                           !.stages = <<"Received">>,
                           !.asked = q.asked + 1]

\* lines 474-476: the verify parameter of process_query keeps its default
analyze_feature_implementation(feature_description) ==
    ProcessQueryCall(feature_description, "feature_implementation_template", TRUE)

\* lines 478-480
analyze_code_change_impact(change_description) ==
    ProcessQueryCall(change_description, "code_change_impact_template", TRUE)

\* cli.py lines 46-55
cli_main ==
    /\ cli.pc = "idle"
    /\ q.pc = "idle"
    /\ \E command \in Commands, no_verify \in BOOLEAN :
          \E inputs \in IF command = "interactive" THEN Sessions
                        ELSE {<<text>> : text \in CommandTexts} :
             cli' = [cli EXCEPT !.pc = "dispatch",
                                !.command = command,
                                !.no_verify = no_verify,
                                !.verify = ~no_verify,
                                !.inputs = inputs]
    /\ UNCHANGED << cm, q, pf, idxvars >>

\* cli.py lines 58-68: the commands query, feature and impact
cli_command ==
    /\ cli.pc = "dispatch"
    /\ cli.command \in {"query", "feature", "impact"}
    /\ LET text == cli.inputs[1]
       IN  q' = IF cli.command = "query"
                THEN ProcessQueryCall(text, "general_analysis_template", cli.verify)
                ELSE IF cli.command = "feature"
                THEN analyze_feature_implementation(text)
                ELSE analyze_code_change_impact(text)
    /\ cli' = [cli EXCEPT !.pc = "waiting", !.entry = cli.command, !.inputs = << >>]
    /\ UNCHANGED << cm, pf, idxvars >>

\* cli.py lines 86-104: one line typed in interactive mode
cli_interactive ==
    /\ cli.pc = "dispatch"
    /\ cli.command = "interactive"
    /\ LET user_input == cli.inputs[1]
       IN  IF Lower(user_input) \in {"exit", "quit"}
           THEN /\ cli' = [cli EXCEPT !.pc = "done", !.inputs = << >>]
                /\ UNCHANGED q
           ELSE /\ q' = IF StartsWith(Lower(user_input), "feature: ")
                        THEN analyze_feature_implementation(
                                Strip(SubSeq(user_input, 10, Len(user_input))))
                        ELSE IF StartsWith(Lower(user_input), "impact: ")
                        THEN analyze_code_change_impact(
                                Strip(SubSeq(user_input, 9, Len(user_input))))
                        ELSE ProcessQueryCall(user_input, "general_analysis_template",
                                              cli.verify)
                /\ cli' = [cli EXCEPT
                             !.pc = "waiting",
                             !.entry = IF StartsWith(Lower(user_input), "feature: ")
                                       THEN "feature"
                                       ELSE IF StartsWith(Lower(user_input), "impact: ")
                                       THEN "impact" ELSE "query",
                             !.inputs = Tail(@)]
    /\ UNCHANGED << cm, pf, idxvars >>

\* cli.py lines 60, 64, 68 and 106: the response is printed
cli_print ==
    /\ cli.pc = "waiting"
    /\ q.pc = "delivered"
    /\ cli' = [cli EXCEPT !.pc = IF cli.command = "interactive" THEN "dispatch" ELSE "done",
                          !.printed = <<q.result>>]
    /\ UNCHANGED << cm, q, pf, idxvars >>

InitCli ==
    /\ InitIndexer
    /\ cm \in ContextManagers
    /\ q = IdleQueryState
    /\ cli = IdleCli
    /\ pf = IdleCall

NextCli ==
    \/ cli_main
    \/ cli_command
    \/ cli_interactive
    \/ build_context
    \/ prompt_built
    \/ answer
    \/ verify_response
    \/ deliver
    \/ cli_print

SpecCli == InitCli /\ [][NextCli]_vars

\* C11: when the skip-verification flag is given, no query the command
\* processes reaches the Verified stage, whichever operation it is.
C11_NoVerifyIsHonoured ==
    (cli.pc # "idle" /\ cli.no_verify) => "Verified" \notin SeqRange(q.stages)

(***************************************************************************)
(* Claims about the records of the Index Store.                            *)
(***************************************************************************)
\* the records the index file holds, read as load_from_file reads them
StoredRecords == load_from_file(index_file)

\* C12: no record of the index file lists a dependency whose import path
\* starts with a configured external package name.
C12_NoExternalDependencyStored ==
    \A i \in 1..Len(StoredRecords) :
        \A dependency \in SeqRange(StoredRecords[i].v.dependencies) :
            ~\E pkg \in EXTERNAL_PACKAGES : StartsWith(dependency, pkg)

\* C12 witness: the index holds the record of BarService, whose source
\* imports java.util.List, and the record lists the internal import.
C12_Witness ==
    /\ "app/BarService.java" \in IndexKeys
    /\ src["app/BarService.java"] # "bad"
    /\ "java.util.List" \in SeqRange(SourceOf("app/BarService.java",
                                              src["app/BarService.java"]).imports)
    /\ "com.bank.BarRepository" \in
          SeqRange(DictVal(StoredRecords, "app/BarService.java").dependencies)

MaxComponents == 3
MaxTopN == 3

\* a fourth summary, whose embedding equals the one of FooController
BazSummary ==
    [k |-> "BazController",
     v |-> [file_path |-> "summary/file_summaries/BazController.md",
            summary |-> "Baz controller: endpoint /a/c", type |-> "controller"]]

\* the summaries _load_file_summaries found, in the order glob listed them
SummaryLists ==
    LET all == SeqRange(FileSummaries) \cup {BazSummary}
    IN  UNION { {fs \in [1..n -> all] : \A i, j \in 1..n : i # j => fs[i] # fs[j]}
                : n \in 0..MaxComponents }

Call(op, args) == [op |-> op, done |-> FALSE, args |-> args, out |-> [none |-> TRUE]]

RelevantComponentsCalls ==
    { Call("get_relevant_components",
           [c |-> [IdleContextManager EXCEPT
                     !.file_summaries = fs,
                     !.file_summary_embeddings = create_embeddings(fs)],
            query |-> query, top_n |-> top_n])
      : fs \in SummaryLists, query \in Queries, top_n \in 0..MaxTopN }

call_get_relevant_components ==
    /\ pf.op = "get_relevant_components"
    /\ ~pf.done
    /\ pf' = [pf EXCEPT !.done = TRUE,
                        !.out = [value |-> get_relevant_components(
                                              pf.args.c, pf.args.query, pf.args.top_n)]]
    /\ UNCHANGED << cm, q, cli, idxvars >>

\* C14: get_relevant_components returns at most top_n components, none of
\* them less similar to the query than one it left out, in descending
\* similarity, and components of equal similarity in insertion order.
C14_TopNStableDescending ==
    (pf.op = "get_relevant_components" /\ pf.done) =>
        LET stored == pf.args.c.file_summary_embeddings
            result == pf.out.value
            Sim(k) == cosine_similarity(Encode(pf.args.query), DictVal(stored, k))
            Pos(k) == CHOOSE i \in 1..Len(stored) : stored[i].k = k
            Equal(x, y) == SimGeq(x, y) /\ SimGeq(y, x)
            returned == {result[i].k : i \in 1..Len(result)}
        IN  /\ Len(result) <= pf.args.top_n
            /\ Len(result) = IF Len(stored) < pf.args.top_n THEN Len(stored)
                             ELSE pf.args.top_n
            /\ returned \subseteq DictKeys(stored)
            /\ \A i \in 1..Len(result) : result[i].v.similarity = Sim(result[i].k)
            /\ \A i, j \in 1..Len(result) :
                  i < j => /\ result[i].k # result[j].k
                           /\ SimGeq(Sim(result[i].k), Sim(result[j].k))
                           /\ Equal(Sim(result[i].k), Sim(result[j].k))
                                 => Pos(result[i].k) < Pos(result[j].k)
            /\ \A k \in DictKeys(stored) \ returned :
                  \A r \in returned :
                     /\ SimGeq(Sim(r), Sim(k))
                     /\ Equal(Sim(r), Sim(k)) => Pos(r) < Pos(k)

\* C14 witness: three components were stored, two of them equally similar
\* to the query with the later-listed name first in the alphabet, and the
\* call with top_n = 2 returned those two in insertion order.
C14_Witness ==
    /\ pf.op = "get_relevant_components"
    /\ pf.done
    /\ pf.args.top_n = 2
    /\ Len(pf.args.c.file_summaries) = 3
    /\ Len(pf.out.value) = 2
    /\ pf.out.value[1].k = "FooController"
    /\ pf.out.value[2].k = "BazController"
    /\ pf.out.value[1].v.similarity = pf.out.value[2].v.similarity

\* lines 208 and 379: the class-level base path and the method-level path
\* are joined with a separator, then every // is replaced by /
full_path(base_path, path) == Replace(base_path \o "/" \o path, "//", "/")

PathTexts(name) == {"", name, "/" \o name, name \o "/", "/" \o name \o "/"}

FullPathCalls ==
    { Call("full_path", [base_path |-> base_path, path |-> path])
      : base_path \in PathTexts("a"), path \in PathTexts("b") }

call_full_path ==
    /\ pf.op = "full_path"
    /\ ~pf.done
    /\ pf' = [pf EXCEPT !.done = TRUE,
                        !.out = [value |-> full_path(pf.args.base_path, pf.args.path)]]
    /\ UNCHANGED << cm, q, cli, idxvars >>

\* C15: the endpoint path built from a base path and a method path is the
\* base path without its trailing separator, one separator, and the method
\* path without its leading separator; it has no doubled separator.
C15_SingleSeparator ==
    (pf.op = "full_path" /\ pf.done) =>
        LET base_path == pf.args.base_path
            path == pf.args.path
            head == IF EndsWith(base_path, "/")
                    THEN SubSeq(base_path, 1, Len(base_path) - 1) ELSE base_path
            tail == IF StartsWith(path, "/") THEN SubSeq(path, 2, Len(path)) ELSE path
        IN  /\ ~Contains(pf.out.value, "//")
            /\ pf.out.value = head \o "/" \o tail

(***************************************************************************)
(* The record parse_java_file builds (lines 322-355), for source files     *)
(* with up to MaxTypes type declarations.  tree.types lists the type       *)
(* declarations in the order the walk over the tree meets them; nested     *)
(* says whether a declaration is a member of the one before it.            *)
(***************************************************************************)
MaxTypes == 2

TypeKinds == {"class", "interface", "enum", "annotation"}

TypeNode(kind, name, line, nested) ==
    [kind |-> kind, name |-> name, line |-> line, nested |-> nested,
     annotations |-> << >>,
     methods |-> IF kind = "class"
                 THEN << [name |-> "run", line |-> line + 1, annotations |-> << >>],
                         [name |-> "runTest", line |-> line + 2, annotations |-> << >>] >>
                 ELSE << >>,
     fields |-> << >>]

TypeLists ==
    UNION { { [i \in 1..n |-> TypeNode(kinds[i], names[i], 4 * i, i > 1 /\ nested[i])]
              : kinds \in [1..n -> TypeKinds],
                names \in [1..n -> {"Helper", "HelperTest"}],
                nested \in {f \in [1..n -> BOOLEAN] : ~f[1]} }
            : n \in 1..MaxTypes }

ParsedDataCalls ==
    { Call("parsed_data",
           [file_path |-> file_path,
            tree |-> [valid |-> TRUE, lines |-> << >>, package |-> "com.bank",
                      imports |-> << >>, types |-> types]])
      : file_path \in {"app/Helper.java", "app/test/Helper.java", "app/Tests/Helper.java"},
        types \in TypeLists }

call_parsed_data ==
    /\ pf.op = "parsed_data"
    /\ ~pf.done
    /\ pf' = [pf EXCEPT !.done = TRUE,
                        !.out = [value |-> ParsedData(pf.args.file_path, pf.args.tree)]]
    /\ UNCHANGED << cm, q, cli, idxvars >>

\* C18: the record holds no class and no method to which a test heuristic
\* applies: a name that contains a test keyword, or a file path with a
\* test directory among its segments.
C18_TestDeclarationsExcluded ==
    (pf.op = "parsed_data" /\ pf.done) =>
        /\ \A c \in SeqRange(pf.out.value.classes) :
              ~is_test_class(c.name, pf.args.file_path)
        /\ \A m \in SeqRange(pf.out.value.methods) :
              ~is_test_class(m.name, pf.args.file_path)

\* C19: the number of classes the record holds is the number of top-level
\* type declarations of the file.
C19_ClassCountIsTopLevelCount ==
    (pf.op = "parsed_data" /\ pf.done) =>
        Len(pf.out.value.classes) =
            Len(SelectSeq(pf.args.tree.types, LAMBDA t : ~t.nested))

(***************************************************************************)
(* ContextManager(summary_dir) (analyzer.py lines 33-46).  Each artifact   *)
(* of the summary directory is there and readable (ok), not there          *)
(* (missing), or there while reading it raises: open raises an OSError, or *)
(* json.load raises JSONDecodeError (unreadable).                          *)
(***************************************************************************)
Artifacts ==
    <<"file_summaries", "module_summaries", "app_overview", "api_flows",
      "component_matrix", "prompt_templates">>

ArtifactStates == {"ok", "missing", "unreadable"}

\* the loaders (lines 48-209): each tests exists() and returns its empty
\* value when that fails; none of them has a try around open or json.load
LoadArtifact(artifact, state) ==
    IF state = "unreadable" THEN [raised |-> TRUE, value |-> << >>]
    ELSE [raised |-> FALSE,
          value |->
            IF artifact = "app_overview"
            THEN IF state = "ok" THEN [summary |-> "A banking application."]
                 ELSE [summary |-> "Application overview not available."]
            ELSE IF state = "missing" \/ artifact = "module_summaries" THEN EmptyDict
            ELSE IF artifact = "file_summaries" THEN FileSummaries
            ELSE IF artifact = "api_flows" THEN ApiFlows
            ELSE IF artifact = "component_matrix" THEN ComponentMatrix
            ELSE ShippedTemplates]

\* __init__ calls the loaders in turn; the first exception ends it
ContextManagerInit(dir) ==
    LET loaded == [i \in 1..Len(Artifacts) |-> LoadArtifact(Artifacts[i], dir[Artifacts[i]])]
        Value(artifact) ==
            loaded[CHOOSE i \in 1..Len(Artifacts) : Artifacts[i] = artifact].value
    IN  IF \E i \in 1..Len(Artifacts) : loaded[i].raised
        THEN [raised |-> TRUE, value |-> IdleContextManager]
        ELSE [raised |-> FALSE,
              value |-> [file_summaries |-> Value("file_summaries"),
                         file_summary_embeddings |->
                             create_embeddings(Value("file_summaries")),
                         app_overview |-> Value("app_overview"),
                         api_flows |-> Value("api_flows"),
                         component_matrix |-> Value("component_matrix"),
                         prompt_templates |-> Value("prompt_templates")]]

ContextManagerCalls ==
    { Call("ContextManager", [summary_dir |-> dir])
      : dir \in [SeqRange(Artifacts) -> ArtifactStates] }

call_ContextManager ==
    /\ pf.op = "ContextManager"
    /\ ~pf.done
    /\ pf' = [pf EXCEPT !.done = TRUE, !.out = ContextManagerInit(pf.args.summary_dir)]
    /\ UNCHANGED << cm, q, cli, idxvars >>

\* C20: constructing a ContextManager raises no exception, whichever
\* artifacts are missing or unreadable, and each such artifact is loaded as
\* its empty collection or as the default overview.
C20_LoadFailuresGiveDefaults ==
    (pf.op = "ContextManager" /\ pf.done) =>
        LET dir == pf.args.summary_dir
            c == pf.out.value
        IN  /\ ~pf.out.raised
            /\ dir["file_summaries"] # "ok" => c.file_summaries = EmptyDict
            /\ dir["app_overview"] # "ok" =>
                  c.app_overview = [summary |-> "Application overview not available."]
            /\ dir["api_flows"] # "ok" => c.api_flows = EmptyDict
            /\ dir["component_matrix"] # "ok" => c.component_matrix = EmptyDict
            /\ dir["prompt_templates"] # "ok" => c.prompt_templates = EmptyDict

(***************************************************************************)
(* generate_api_flow_for_llm (lines 1054-1138): the enhanced API-flow data *)
(* written to the summary directory, computed from the API-flow data and   *)
(* from the index.  Of an entry the model keeps the endpoint, the method,  *)
(* the controller, the service chain and the repository access.            *)
(***************************************************************************)
generate_api_flow_for_llm(api_flow_data, index_data) ==
    LET Dedup(list) ==
            LET firsts == SelectSeq([i \in 1..Len(list) |-> [i |-> i, x |-> list[i]]],
                              LAMBDA p : \A j \in 1..(p.i - 1) : list[j] # p.x)
            IN  [i \in 1..Len(firsts) |-> firsts[i].x]
        \* one item per endpoint, in the order of the two loops
        items == Flatten([i \in 1..Len(api_flow_data) |->
                    [j \in 1..Len(api_flow_data[i].v.endpoints) |->
                        [endpoint_path |-> api_flow_data[i].k,
                         endpoint_data |-> api_flow_data[i].v,
                         endpoint |-> api_flow_data[i].v.endpoints[j]]]])
        KeyOf(item) == item.endpoint_path \o ":" \o item.endpoint.http_method
        \* the entry is made for the first endpoint of a key
        first_items == SelectSeq([i \in 1..Len(items) |-> [i |-> i, x |-> items[i]]],
                           LAMBDA p : \A j \in 1..(p.i - 1) : KeyOf(items[j]) # KeyOf(p.x))
        repository_files ==
            SelectSeq([i \in 1..Len(index_data) |-> index_data[i].k],
                      LAMBDA file_path : Contains(file_path, "Repository"))
        Entry(item) ==
            [endpoint |-> item.endpoint_path,
             method |-> item.endpoint.http_method,
             controller |-> [file |-> item.endpoint.class \o ".java",
                             method |-> item.endpoint.method],
             serviceChain |->
                Dedup([i \in 1..Len(item.endpoint_data.service_calls) |->
                        [file |-> item.endpoint_data.service_calls[i].service \o ".java"]]),
             repositoryAccess |->
                Dedup([i \in 1..Len(repository_files) |->
                        [file |-> Basename(repository_files[i])]])]
    IN  IF api_flow_data = << >> \/ index_data = << >>
        THEN [written |-> FALSE, value |-> EmptyDict]
        ELSE [written |-> TRUE,
              value |-> [i \in 1..Len(first_items) |->
                            [k |-> KeyOf(first_items[i].x), v |-> Entry(first_items[i].x)]]]

\* the indexes of scans over directories that hold some of four files: the
\* two of JavaFiles, a repository, and a controller with a repository field
ApiFlowForLlmCalls ==
    LET BarRepositorySource ==
            [valid |-> TRUE,
             lines |-> << "package com.bank;", "@Repository",
                          "public class BarRepository {", "}" >>,
             package |-> "com.bank", imports |-> << >>,
             types |-> << [kind |-> "class", name |-> "BarRepository", line |-> 3,
                           annotations |-> <<"Repository">>,
                           methods |-> << >>, fields |-> << >>] >>]
        BazControllerSource ==
            [valid |-> TRUE,
             lines |-> << "package com.bank;", "@RestController",
                          "public class BazController {",
                          "  private BazRepository bazRepository;",
                          "  @GetMapping(value = \"/z\")",
                          "  public String list() { return null; }", "}" >>,
             package |-> "com.bank", imports |-> << >>,
             types |-> << [kind |-> "class", name |-> "BazController", line |-> 3,
                           annotations |-> <<"RestController">>,
                           methods |-> << [name |-> "list", line |-> 6,
                                           annotations |-> <<"GetMapping">>] >>,
                           fields |-> << [type |-> "BazRepository",
                                          names |-> <<"bazRepository">>] >>] >>]
        all == << [file_path |-> "app/FooController.java",
                   tree |-> SourceOf("app/FooController.java", "v1")],
                  [file_path |-> "app/BarService.java",
                   tree |-> SourceOf("app/BarService.java", "v1")],
                  [file_path |-> "app/BarRepository.java", tree |-> BarRepositorySource],
                  [file_path |-> "app/BazController.java", tree |-> BazControllerSource] >>
    IN  { Call("generate_api_flow_for_llm",
               [files |-> SelectSeq(all, LAMBDA f : f.file_path \in chosen)])
          : chosen \in SUBSET {all[i].file_path : i \in 1..Len(all)} }

\* the scan has stored the record of every file and derived the API-flow
\* data; generate_api_flow_for_llm reads both
call_generate_api_flow_for_llm ==
    /\ pf.op = "generate_api_flow_for_llm"
    /\ ~pf.done
    /\ LET index_data == [i \in 1..Len(pf.args.files) |->
                            [k |-> pf.args.files[i].file_path,
                             v |-> ParsedData(pf.args.files[i].file_path,
                                              pf.args.files[i].tree)]]
       IN  pf' = [pf EXCEPT !.done = TRUE,
                            !.out = generate_api_flow_for_llm(ApiFlowData(index_data),
                                                              index_data)]
    /\ UNCHANGED << cm, q, cli, idxvars >>

\* C25: the services and the repositories attached to an endpoint of the
\* enhanced API-flow data are exactly the fields of the endpoint's own
\* class whose type name contains Service, and those whose type name
\* contains Repository.
C25_AttachedAreOwnFields ==
    (pf.op = "generate_api_flow_for_llm" /\ pf.done /\ pf.out.written) =>
        \A i \in 1..Len(pf.out.value) :
            LET entry == pf.out.value[i].v
                class == Replace(entry.controller.file, ".java", "")
                types == UNION { {t \in SeqRange(pf.args.files[n].tree.types) : t.name = class}
                                 : n \in 1..Len(pf.args.files) }
                FieldTypes(marker) ==
                    UNION { {f.type \o ".java" : f \in {g \in SeqRange(t.fields) :
                                                         Contains(g.type, marker)}}
                            : t \in types }
            IN  /\ {s.file : s \in SeqRange(entry.serviceChain)} = FieldTypes("Service")
                /\ {r.file : r \in SeqRange(entry.repositoryAccess)} = FieldTypes("Repository")

(***************************************************************************)
(* generate_component_relationship_matrix (lines 1141-1195) and            *)
(* ContextManager._load_component_matrix (analyzer.py lines 156-190).      *)
(***************************************************************************)
\* lines 1157-1169: the pairs (component, dep_component) put in depends_on
DependsOnPairs(index_data) ==
    UNION { { << Replace(Basename(index_data[i].k), ".java", ""),
                 LET dep_parts == Split(dependency, ".") IN dep_parts[Len(dep_parts)] >>
              : dependency \in
                  {d \in SeqRange(index_data[i].v.dependencies) :
                      ~\E ext_pkg \in EXTERNAL_PACKAGES : Contains(d, ext_pkg)} }
            : i \in 1..Len(index_data) }

\* used_by with the bug that it is keyed by the whole dependency path
UsedByPairs_full_path(index_data) ==
    UNION { { << dependency, Replace(Basename(index_data[i].k), ".java", "") >>
              : dependency \in
                  {d \in SeqRange(index_data[i].v.dependencies) :
                      ~\E ext_pkg \in EXTERNAL_PACKAGES : Contains(d, ext_pkg)} }
            : i \in 1..Len(index_data) }

\* lines 1157-1169: the pairs (dep_component, component) put in used_by
UsedByPairs(index_data) ==
    UNION { { << LET dep_parts == Split(dependency, ".") IN dep_parts[Len(dep_parts)],
                 Replace(Basename(index_data[i].k), ".java", "") >>
              : dependency \in
                  {d \in SeqRange(index_data[i].v.dependencies) :
                      ~\E ext_pkg \in EXTERNAL_PACKAGES : Contains(d, ext_pkg)} }
            : i \in 1..Len(index_data) }

\* the text of the matrix file and, row by row, what it was written from;
\* sorted orders texts by the code points of their characters
generate_component_relationship_matrix(index_data) ==
    LET CodePoints == "-./0123456789" \o UpperLetters \o "_" \o LowerLetters
        RECURSIVE Less(_, _)
        Less(a, b) ==
            IF a = "" THEN b # ""
            ELSE IF b = "" THEN FALSE
            ELSE IF SubSeq(a, 1, 1) = SubSeq(b, 1, 1)
            THEN Less(SubSeq(a, 2, Len(a)), SubSeq(b, 2, Len(b)))
            ELSE Find(CodePoints, SubSeq(a, 1, 1)) < Find(CodePoints, SubSeq(b, 1, 1))
        RECURSIVE sorted(_)
        sorted(S) ==
            IF S = {} THEN << >>
            ELSE LET least == CHOOSE x \in S : \A y \in S \ {x} : Less(x, y)
                 IN  << least >> \o sorted(S \ {least})
        depends_on == DependsOnPairs(index_data)
        used_by == UsedByPairs(index_data)
        components == sorted({p[1] : p \in depends_on} \cup {p[1] : p \in used_by})
        rows == [i \in 1..Len(components) |->
                    [component |-> components[i],
                     deps |-> sorted({p[2] : p \in {r \in depends_on : r[1] = components[i]}}),
                     users |-> sorted({p[2] : p \in {r \in used_by : r[1] = components[i]}})]]
    IN  IF index_data = << >>
        THEN [written |-> FALSE, rows |-> << >>, content |-> ""]
        ELSE [written |-> TRUE,
              rows |-> rows,
              content |->
                "# Component Relationship Matrix\n\n"
                \o "| Component | Depends On | Used By |\n"
                \o "|-----------|-----------|--------|\n"
                \o ConcatAll([i \in 1..Len(rows) |->
                        "| " \o rows[i].component \o " | " \o Join(rows[i].deps, ", ")
                            \o " | " \o Join(rows[i].users, ", ") \o " |\n"])]

\* _load_component_matrix for a matrix file with the given text
load_component_matrix(content) ==
    LET lines == Split(content, "\n")
        NonEmpty(names) == SelectSeq([i \in 1..Len(names) |-> Strip(names[i])],
                                     LAMBDA name : name # "")
        table == SelectSeq(SubSeq(lines, 4, Len(lines)),
                    LAMBDA line : Contains(line, "|") /\ Len(Split(line, "|")) >= 4)
        RECURSIVE Load(_, _)
        Load(matrix, rest) ==
            IF rest = << >> THEN matrix
            ELSE LET parts == Split(Head(rest), "|")
                 IN  Load(DictSet(matrix, Strip(parts[2]),
                                  [depends_on |-> NonEmpty(Split(Strip(parts[3]), ", ")),
                                   used_by |-> NonEmpty(Split(Strip(parts[4]), ", "))]),
                          Tail(rest))
    IN  Load(EmptyDict, table)

\* indexes whose records depend on classes of the application and on
\* packages the index keeps although their path has the name of an
\* external package in it
ComponentMatrixCalls ==
    LET files == << "app/FooController.java", "app/BarService.java",
                    "app/model/Audit.java" >>
        imports == << "com.bank.BarService", "com.bank.BarRepository",
                      "com.bank.javabeans.Audit" >>
    IN  { Call("generate_component_relationship_matrix",
               [index_data |->
                    LET chosen == SelectSeq([i \in 1..Len(files) |-> i],
                                            LAMBDA i : deps[i] # {"absent"})
                    IN  [n \in 1..Len(chosen) |->
                            [k |-> files[chosen[n]],
                             v |-> [dependencies |->
                                      SelectSeq(imports,
                                                LAMBDA d : d \in deps[chosen[n]])]]]])
          : deps \in [1..Len(files) ->
                        {{"absent"}} \cup SUBSET SeqRange(imports)] }

\* the matrix is generated from the index and the ContextManager loads it
call_generate_component_relationship_matrix ==
    /\ pf.op = "generate_component_relationship_matrix"
    /\ ~pf.done
    /\ LET generated == generate_component_relationship_matrix(pf.args.index_data)
       IN  pf' = [pf EXCEPT
                    !.done = TRUE,
                    !.out = [written |-> generated.written,
                             rows |-> generated.rows,
                             content |-> generated.content,
                             loaded |-> IF generated.written
                                        THEN load_component_matrix(generated.content)
                                        ELSE EmptyDict]]
    /\ UNCHANGED << cm, q, cli, idxvars >>

\* C26: in the rows of the generated matrix, B is among the depends-on
\* names of A exactly when A is among the used-by names of B, for all
\* components A and B; every name a row mentions has a row of its own.
C26_UsedByIsInverseOfDependsOn ==
    (pf.op = "generate_component_relationship_matrix" /\ pf.done /\ pf.out.written) =>
        LET rows == pf.out.rows
            DependsOn(a) == UNION {SeqRange(r.deps) : r \in {x \in SeqRange(rows) : x.component = a}}
            UsedBy(b) == UNION {SeqRange(r.users) : r \in {x \in SeqRange(rows) : x.component = b}}
            named == {r.component : r \in SeqRange(rows)}
            mentioned == UNION {SeqRange(r.deps) \cup SeqRange(r.users) : r \in SeqRange(rows)}
        IN  /\ mentioned \subseteq named
            /\ \A a, b \in named : b \in DependsOn(a) <=> a \in UsedBy(b)

\* C26 witness: a matrix was generated in which FooController depends on
\* BarService and BarService depends on BarRepository.
C26_Witness ==
    /\ pf.op = "generate_component_relationship_matrix"
    /\ pf.done
    /\ pf.out.written
    /\ \E i, j, k \in 1..Len(pf.out.rows) :
          /\ pf.out.rows[i].component = "FooController"
          /\ "BarService" \in SeqRange(pf.out.rows[i].deps)
          /\ pf.out.rows[j].component = "BarService"
          /\ "BarRepository" \in SeqRange(pf.out.rows[j].deps)
          /\ "FooController" \in SeqRange(pf.out.rows[j].users)
          /\ pf.out.rows[k].component = "BarRepository"
          /\ pf.out.rows[k].users = <<"BarService">>

\* C27: the matrix loaded from the generated file has exactly one entry per
\* row that was written, with the depends-on and used-by names of the row,
\* and no entry for anything that is not a component.
C27_MatrixRoundTrip ==
    (pf.op = "generate_component_relationship_matrix" /\ pf.done /\ pf.out.written) =>
        /\ Len(pf.out.loaded) = Len(pf.out.rows)
        /\ \A i \in 1..Len(pf.out.rows) :
              /\ pf.out.rows[i].component \in DictKeys(pf.out.loaded)
              /\ DictVal(pf.out.loaded, pf.out.rows[i].component) =
                    [depends_on |-> pf.out.rows[i].deps, used_by |-> pf.out.rows[i].users]
        /\ DictKeys(pf.out.loaded) \subseteq {pf.out.rows[i].component : i \in 1..Len(pf.out.rows)}

(***************************************************************************)
(* ContextManager.get_related_api_flows(components), for the API flows of  *)
(* a summary directory and the components a query retrieved.               *)
(***************************************************************************)
RelatedApiFlowsCalls ==
    LET Flow(key, controller, services, repositories) ==
            [k |-> key,
             v |-> [endpoint |-> key, method |-> "GET",
                    controller |-> [file |-> controller, method |-> "bar"],
                    serviceChain |-> [i \in 1..Len(services) |-> [file |-> services[i]]],
                    repositoryAccess |->
                        [i \in 1..Len(repositories) |-> [file |-> repositories[i]]]]]
        flows == << Flow("api/v1/b:GET", "FooController.java",
                         <<"BarService.java">>, <<"BarRepository.java">>),
                    Flow("/z:GET", "BazController.java", << >>, <<"BarRepository.java">>),
                    Flow("/advice:GET", "FooControllerAdvice.java",
                         <<"AuditService.java">>, << >>) >>
        names == <<"FooController", "BarService", "BarRepository", "Audit">>
    IN  { Call("get_related_api_flows",
               [c |-> [IdleContextManager EXCEPT
                         !.api_flows = SelectSeq(flows, LAMBDA f : f.k \in keys)],
                components |->
                    LET chosen == SelectSeq(names, LAMBDA n : n \in retrieved)
                    IN  [i \in 1..Len(chosen) |->
                            [k |-> chosen[i],
                             v |-> [summary |-> "Summary of " \o chosen[i],
                                    type |-> "other"]]]])
          : keys \in SUBSET {flows[i].k : i \in 1..Len(flows)},
            retrieved \in SUBSET SeqRange(names) }

call_get_related_api_flows ==
    /\ pf.op = "get_related_api_flows"
    /\ ~pf.done
    /\ pf' = [pf EXCEPT !.done = TRUE,
                        !.out = [value |-> get_related_api_flows(pf.args.c,
                                                                 pf.args.components)]]
    /\ UNCHANGED << cm, q, cli, idxvars >>

\* C28: get_related_api_flows returns, in their order, exactly the entries
\* of the API flows whose controller, or one of whose services or
\* repositories, has the name of a retrieved component: a matching entry
\* is returned unchanged and no other entry is returned.
C28_RelatedFlowsExact ==
    (pf.op = "get_related_api_flows" /\ pf.done) =>
        LET flows == pf.args.c.api_flows
            retrieved == {pf.args.components[i].k : i \in 1..Len(pf.args.components)}
            NameOf(file) == IF EndsWith(file, ".java")
                            THEN SubSeq(file, 1, Len(file) - 5) ELSE file
            Names(flow) == {NameOf(flow.controller.file)}
                             \cup {NameOf(s.file) : s \in SeqRange(flow.serviceChain)}
                             \cup {NameOf(r.file) : r \in SeqRange(flow.repositoryAccess)}
            matching == SelectSeq(flows, LAMBDA e : Names(e.v) \cap retrieved # {})
        IN  pf.out.value = matching

\* C28 witness: of three API flows, the call returned the two that reach
\* the retrieved repository and left out the one whose controller only has
\* the name of a retrieved component as a part of its own name.
C28_Witness ==
    /\ pf.op = "get_related_api_flows"
    /\ pf.done
    /\ Len(pf.args.c.api_flows) = 3
    /\ {pf.args.components[i].k : i \in 1..Len(pf.args.components)}
          = {"BarRepository", "Audit"}
    /\ DictKeys(pf.out.value) = {"api/v1/b:GET", "/z:GET"}

(***************************************************************************)
(* scan_directory_incremental, lines 621-635: whether a file that os.walk  *)
(* reports is put in java_files.                                           *)
(***************************************************************************)
EnumeratedCalls ==
    { Call("enumerated", [file_path |-> file_path])
      : file_path \in Directory \cup
            { "app/latest/Rates.java", "app/contest/Entry.java",
              "app/.github/Tool.java", "app/src/Test/Helper.java",
              "app/latest/notes.txt" } }

call_enumerated ==
    /\ pf.op = "enumerated"
    /\ ~pf.done
    /\ pf' = [pf EXCEPT !.done = TRUE,
                        !.out = [value |-> Enumerated(pf.args.file_path)]]
    /\ UNCHANGED << cm, q, cli, idxvars >>

\* C29: a file is enumerated exactly when its name ends with the source
\* extension and no directory of its path is an ignore directory (.git or
\* a test directory); a directory whose name only contains such a name
\* does not exclude the file.
C29_EnumeratedIffEligible ==
    (pf.op = "enumerated" /\ pf.done) =>
        LET parts == Split(pf.args.file_path, "/")
            directories == {parts[i] : i \in 1..(Len(parts) - 1)}
            ignored == \E d \in directories : Lower(d) \in {".git", "test"}
        IN  pf.out.value <=> (EndsWith(parts[Len(parts)], ".java") /\ ~ignored)

(***************************************************************************)
(* call_openai_api(prompt, max_retries, retry_delay) (lines 728-756), step *)
(* by step.  pf.out holds the locals of the running call: where it is, the *)
(* loop variable attempt, what it has done so far (history: the requests   *)
(* with how they ended and the sleeps, in order; the seconds slept), and   *)
(* what it returns.                                                        *)
(***************************************************************************)
MaxRetries == 3

OpenAICalls ==
    { Call("call_openai_api",
           [prompt |-> prompt, openai_api_key |-> api_key,
            max_retries |-> max_retries, retry_delay |-> retry_delay])
      : prompt \in {"Summarize BarService.java", "Summarize FooController.java"},
        api_key \in {"", "sk-key"}, max_retries \in 0..MaxRetries,
        retry_delay \in {1, 2} }

\* lines 730-739: without a key None is returned before any request; with
\* max_retries = 0 the loop has no round and the function ends with None
openai_load_config ==
    /\ pf.op = "call_openai_api"
    /\ ~pf.done
    /\ pf.out = [none |-> TRUE]
    /\ LET returns == pf.args.openai_api_key = "" \/ pf.args.max_retries = 0
       IN  pf' = [pf EXCEPT
                    !.done = returns,
                    !.out = [pc |-> IF returns THEN "returned" ELSE "request",
                             attempt |-> 0, events |-> << >>, waited |-> 0,
                             result |-> [none |-> TRUE, text |-> ""]]]
    /\ UNCHANGED << cm, q, cli, idxvars >>

\* the request with the bug that the sleep also follows the last failure
openai_request_sleeps_after_last ==
    /\ pf.op = "call_openai_api"
    /\ ~pf.done
    /\ pf.out # [none |-> TRUE]
    /\ pf.out.pc = "request"
    /\ \E outcome \in Outcomes :
          pf' = IF outcome.ok
                THEN [pf EXCEPT !.done = TRUE,
                                !.out.pc = "returned",
                                !.out.events = Append(@, "request_ok"),
                                !.out.result = [none |-> FALSE, text |-> outcome.text]]
                ELSE [pf EXCEPT !.out.pc = "sleep",
                                !.out.events = Append(@, "request_failed")]
    /\ UNCHANGED << cm, q, cli, idxvars >>

\* lines 741-756: one round of the loop up to the sleep
openai_request ==
    /\ pf.op = "call_openai_api"
    /\ ~pf.done
    /\ pf.out # [none |-> TRUE]
    /\ pf.out.pc = "request"
    /\ \E outcome \in Outcomes :
          pf' = IF outcome.ok
                THEN [pf EXCEPT !.done = TRUE,
                                !.out.pc = "returned",
                                !.out.events = Append(@, "request_ok"),
                                !.out.result = [none |-> FALSE, text |-> outcome.text]]
                ELSE IF pf.out.attempt < pf.args.max_retries - 1
                THEN [pf EXCEPT !.out.pc = "sleep",
                                !.out.events = Append(@, "request_failed")]
                ELSE [pf EXCEPT !.done = TRUE,
                                !.out.pc = "returned",
                                !.out.events = Append(@, "request_failed")]
    /\ UNCHANGED << cm, q, cli, idxvars >>

\* line 754 and the next round of the loop; after the last round the
\* function ends with None
openai_sleep ==
    /\ pf.op = "call_openai_api"
    /\ ~pf.done
    /\ pf.out # [none |-> TRUE]
    /\ pf.out.pc = "sleep"
    /\ LET more == pf.out.attempt + 1 < pf.args.max_retries
       IN  pf' = [pf EXCEPT !.done = ~more,
                            !.out.pc = IF more THEN "request" ELSE "returned",
                            !.out.attempt = @ + 1,
                            !.out.events = Append(@, "sleep"),
                            !.out.waited = @ + pf.args.retry_delay]
    /\ UNCHANGED << cm, q, cli, idxvars >>

InitPure ==
    /\ InitIndexer
    /\ cm = IdleContextManager
    /\ q = IdleQueryState
    /\ cli = IdleCli
    /\ pf \in RelevantComponentsCalls \cup FullPathCalls \cup ParsedDataCalls
                \cup ContextManagerCalls \cup ApiFlowForLlmCalls
                \cup ComponentMatrixCalls \cup RelatedApiFlowsCalls
                \cup EnumeratedCalls

NextPure ==
    \/ call_get_relevant_components
    \/ call_full_path
    \/ call_parsed_data
    \/ call_ContextManager
    \/ call_generate_api_flow_for_llm
    \/ call_generate_component_relationship_matrix
    \/ call_get_related_api_flows
    \/ call_enumerated

SpecPure == InitPure /\ [][NextPure]_vars

\* calls of call_openai_api; a call that can take a step does take it
InitOpenAI ==
    /\ InitIndexer
    /\ cm = IdleContextManager
    /\ q = IdleQueryState
    /\ cli = IdleCli
    /\ pf \in OpenAICalls

NextOpenAI ==
    \/ openai_load_config
    \/ openai_request
    \/ openai_sleep

SpecOpenAI == InitOpenAI /\ [][NextOpenAI]_vars /\ WF_vars(NextOpenAI)

\* C16: the record stored for FooController, a controller with base path /a
\* whose method bar is annotated GET with path /b, holds an endpoint with
\* HTTP method GET, path /a/b, class FooController and method name bar.
C16_EndpointHasFullPath ==
    \A i \in 1..Len(StoredRecords) :
        StoredRecords[i].k = "app/FooController.java" =>
            \E e \in SeqRange(StoredRecords[i].v.api_flow.endpoints) :
                /\ e.http_method = "GET"
                /\ e.path = "/a/b"
                /\ e.class = "FooController"
                /\ e.method = "bar"

\* the API-flow data the API-flow file holds
StoredApiFlow == load_from_file(api_flow_file)

\* C17: in the API-flow file, the key of every endpoint of FooController is
\* built from /a, the value of the class's RequestMapping annotation in the
\* source text, joined with the endpoint's path.
C17_KeyFromParsedBasePath ==
    \A i \in 1..Len(StoredApiFlow) :
        \A e \in SeqRange(StoredApiFlow[i].v.endpoints) :
            e.class = "FooController" =>
                StoredApiFlow[i].k = Replace("/a" \o "/" \o e.path, "//", "/")

(***************************************************************************)
(* Claims about the prompts of a query.                                    *)
(***************************************************************************)
\* the requests the running query has sent in the given stage
CallsOf(stage) == SelectSeq(q.calls, LAMBDA call : call.stage = stage)

\* C21: when the named prompt template is missing, the prompt is built from
\* the default format of build_prompt (its headings, with the overview, the
\* relationship rows and the question in their places) and is the prompt
\* the Answered request sends; when the self-correction template is
\* missing, the Verified request sends a prompt built from the default
\* format of _verify_response; such a query is delivered only after its
\* requests were sent.
C21_MissingTemplateFallsBack ==
    LET overview == q.context.app_overview.summary
    IN  /\ ( /\ "PromptBuilt" \in SeqRange(q.stages)
             /\ q.template_name \notin DictKeys(cm.prompt_templates) ) =>
               /\ StartsWith(q.prompt,
                      "# Spring Boot Application Analysis\n## Application Context\n"
                          \o overview \o "\n## Components Relevant to Query\n")
               /\ Contains(q.prompt,
                      "## Component Relationships\n" \o matrix_text(q.context))
               /\ EndsWith(q.prompt, "## Question\n" \o q.query \o "\n")
               /\ \A i \in 1..Len(CallsOf("Answered")) :
                      CallsOf("Answered")[i].prompt = q.prompt
               /\ q.pc = "delivered" => Len(CallsOf("Answered")) = 1
        /\ "self_correction_template" \notin DictKeys(cm.prompt_templates) =>
               /\ \A i \in 1..Len(CallsOf("Verified")) :
                      StartsWith(CallsOf("Verified")[i].prompt,
                          "# Self-Correction Review\n## Original Response\n"
                              \o q.response \o "\n## Application Context\n"
                              \o overview \o "\n## Component Relationships\n")
               /\ (q.pc = "delivered" /\ q.verify) => Len(CallsOf("Verified")) = 1

\* C21 witness: a verified query that names a template the summary
\* directory does not have, over a directory without any template, was
\* delivered after both requests.
C21_Witness ==
    /\ q.pc = "delivered"
    /\ q.verify
    /\ q.template_name = "no_such_template"
    /\ cm.prompt_templates = << >>
    /\ cm.file_summaries # << >>
    /\ Len(q.calls) = 2
    /\ q.calls[1].prompt # ""
    /\ q.calls[2].prompt # ""

\* C22: the prompt of every Verified request contains the text of the first
\* answer, the application overview, and the relationship rows of the
\* Context, whichever template the verification step selected.
C22_VerificationEmbedsAnswerAndContext ==
    \A i \in 1..Len(CallsOf("Verified")) :
        LET prompt == CallsOf("Verified")[i].prompt
        IN  /\ Contains(prompt, q.response)
            /\ Contains(prompt, q.context.app_overview.summary)
            /\ Contains(prompt, matrix_text(q.context))

\* C23: for every shipped template and for the default format, the prompt
\* build_prompt produces contains the raw query text, and no placeholder of
\* the selected template for the overview, the component summaries, the
\* API flows or the relationship matrix is left in it.
C23_PromptSlotsSubstituted ==
    "PromptBuilt" \in SeqRange(q.stages) =>
        LET named == get_prompt_template(cm, q.template_name)
            template == IF named = "" THEN DefaultPromptTemplate ELSE named
            slots == { "{insert relevant high-level application summary}",
                       "{insert summaries of the 3-5 most relevant components}",
                       "{insert API flow data for endpoints relevant to the query}",
                       "{insert API flow data for endpoints relevant to the feature}",
                       "{insert relevant portion of component relationship matrix}",
                       "{app_overview}", "{components}", "{api_flows}", "{matrix}" }
        IN  /\ Contains(q.prompt, q.query)
            /\ \A slot \in slots :
                   (Contains(template, slot) /\ ~Contains(q.query, slot))
                       => ~Contains(q.prompt, slot)

(***************************************************************************)
(* Claims about the derived API-flow data.                                 *)
(***************************************************************************)
\* no two positions of the list hold the same entry
NoDuplicates(list) == \A i, j \in 1..Len(list) : list[i] = list[j] => i = j

\* C24: when a parse_java_file call of the scan has returned without an
\* I/O error, the API-flow file is the text of the derivation over the
\* index the call saved, so deriving again from the stored index gives the
\* same file; no endpoint or service call is listed twice under a path;
\* and when the file parsed was unchanged since its last parse (no I/O
\* error before), the index file and the API-flow file are as they were
\* before the call.
C24_ApiFlowIsDerivedFromIndex ==
    ( /\ workers[Scanner].pc = "return"
      /\ workers[Scanner].result = "Successfully parsed"
      /\ env.faults = scan.faults_before ) =>
        /\ StoredRecords = workers[Scanner].index_data
        /\ api_flow_file.exists
        /\ api_flow_file.bytes = Dump(ApiFlowData(StoredRecords))
        /\ StoredApiFlow = ApiFlowData(StoredRecords)
        /\ \A i \in 1..Len(StoredApiFlow) :
              /\ NoDuplicates(StoredApiFlow[i].v.endpoints)
              /\ NoDuplicates(StoredApiFlow[i].v.service_calls)
        /\ ( workers[Scanner].file_path \in scan.reparsed /\ env.faults = 0 ) =>
              /\ index_file = scan.index_before
              /\ api_flow_file = scan.api_flow_before

\* C24 witness: in a second scan an unchanged controller was parsed again
\* without any I/O error, and the API-flow file lists its endpoint and the
\* service call of its class.
C24_Witness ==
    /\ workers[Scanner].pc = "return"
    /\ workers[Scanner].result = "Successfully parsed"
    /\ workers[Scanner].file_path = "app/FooController.java"
    /\ workers[Scanner].file_path \in scan.reparsed
    /\ env.faults = 0
    /\ scan.n = 2
    /\ \E i \in 1..Len(StoredApiFlow) :
          /\ StoredApiFlow[i].v.endpoints # << >>
          /\ StoredApiFlow[i].v.service_calls # << >>

(***************************************************************************)
(* Claims about call_openai_api.                                           *)
(***************************************************************************)
\* the positions of the events of one kind
EventsAt(kind) == {i \in 1..Len(pf.out.events) : pf.out.events[i] = kind}

\* what C30 says of every state of a call of call_openai_api
RetryBound ==
    (pf.op = "call_openai_api" /\ pf.out # [none |-> TRUE]) =>
        LET events == pf.out.events
            requests == EventsAt("request_ok") \cup EventsAt("request_failed")
        IN  /\ Cardinality(requests) <= pf.args.max_retries
            \* a successful request is the last thing the call does
            /\ \A i \in EventsAt("request_ok") :
                  /\ i = Len(events)
                  /\ pf.done
                  /\ ~pf.out.result.none
            \* a sleep follows a failed request, and a request follows it
            /\ \A i \in EventsAt("sleep") :
                  /\ i > 1 /\ events[i - 1] = "request_failed"
                  /\ pf.done => i < Len(events)
            /\ pf.out.waited = Cardinality(EventsAt("sleep")) * pf.args.retry_delay
            /\ pf.done =>
                  IF pf.out.result.none
                  THEN \* no key, no round, or max_retries failures in a row
                       /\ EventsAt("request_ok") = {}
                       /\ Cardinality(EventsAt("request_failed")) \in {0, pf.args.max_retries}
                       /\ events # << >> =>
                             /\ events[Len(events)] = "request_failed"
                             /\ Cardinality(EventsAt("sleep")) = pf.args.max_retries - 1
                  ELSE /\ Cardinality(EventsAt("request_ok")) = 1
                       /\ Cardinality(EventsAt("sleep"))
                             = Cardinality(EventsAt("request_failed"))
            \* a failed request that is not the last allowed one is slept on
            /\ (~pf.done /\ pf.out.pc = "request") =>
                  Cardinality(EventsAt("sleep")) = Cardinality(EventsAt("request_failed"))

\* C30: call_openai_api ends, after at most max_retries requests; it
\* returns the first successful response without a further request, sleeps
\* retry_delay after every failed request but the last allowed one, and
\* after max_retries failures returns None without sleeping again.
C30_TerminatesWithinMaxRetries ==
    /\ []RetryBound
    /\ (pf.op = "call_openai_api") ~> pf.done

\* C30 witness: a call with max_retries = 3 has returned None after three
\* failed requests and two sleeps.
C30_Witness ==
    /\ pf.op = "call_openai_api"
    /\ pf.done
    /\ pf.args.max_retries = 3
    /\ pf.out.events = <<"request_failed", "sleep", "request_failed", "sleep",
                         "request_failed">>
    /\ pf.out.result.none
    /\ pf.out.waited = 2 * pf.args.retry_delay

====
